---- MODULE Spec2Model ----
(***************************************************************************)
(* A model of keikoproj/minion-manager: the reconciliation loop of         *)
(* AWSMinionManager (minion_manager_work), the scheduling of instance      *)
(* terminations (schedule_instance_termination, run_or_die) and the        *)
(* rewriting of launch configurations (update_scaling_group), together     *)
(* with the part of the cloud provider and of the bid advisor they talk to.*)
(***************************************************************************)
EXTENDS Integers, Sequences, FiniteSets, TLC

(***************************************************************************)
(* Bounds of the model.                                                    *)
(***************************************************************************)
\* Size of the pool of EC2 instance ids the provider can ever hand out.
NumInstances == 2

\* Instance ids.  The provider never reuses an id.
Instances == 1..NumInstances

\* The autoscaling groups of the account, in the order in which
\* describe_auto_scaling_groups lists them.
GroupOrder == <<"g1", "g2">>

Groups == {GroupOrder[k] : k \in 1..Len(GroupOrder)}

\* Values of the k8s-minion-manager tag as the operator may have written them.
MMTagValues == {"use-spot", "no-spot", "abcd"}

\* The one instance type and the zone of the groups.
InstanceType == "m3.medium"

GroupZones == {"us-west-2a"}

\* The number float() reads from a price string (in thousandths).
float(s) ==
    CASE s = "0.05" -> 50
      [] s = "0.09" -> 90
      [] s = "0.10" -> 100
      [] s = "0.100" -> 100
      [] s = "0.12" -> 120
      [] s = "80" -> 80000
      [] s = "85" -> 85000
      [] s = "90" -> 90000
      [] s = "100" -> 100000
      [] OTHER -> 0

\* Launch-configuration names: a base string followed by `zeros' copies of
\* the suffix "-0".
LCBase == [g \in Groups |-> IF g = "g1" THEN "lc1" ELSE "lc2"]

\* The most copies of "-0" a launch-configuration name of the model ends in.
MaxSuffixes == 2

LCNames == {<<LCBase[g], z>> : g \in Groups, z \in 0..MaxSuffixes}

\* @retry(stop_max_attempt_number=3)
stop_max_attempt_number == 3


\* The number of attempts a provider call of the main loop or of a termination
\* task may lose: none, or all that @retry allows.
FailChoices == {0, stop_max_attempt_number}

(***************************************************************************)
(* The state.                                                              *)
(***************************************************************************)
VARIABLES
    events_only,             \* AWSMinionManager._events_only
    terminate_percentage,    \* AWSMinionManager.terminate_percentage
    asg_tags,                \* provider: the tags of every group
    desired,                 \* provider: DesiredCapacity of every group
    asg_lc,                  \* provider: LaunchConfigurationName of every group
    launch_configs,          \* provider: name -> "absent", "none" (no SpotPrice) or SpotPrice
    ec2,                     \* provider: the instances
    activities,              \* provider: the scaling activities of every group
    asg_metas,               \* AWSMinionManager._asg_metas (instance_info apart)
    on_demand_kill_threads,  \* keys of AWSMinionManager.on_demand_kill_threads
    threads,                 \* the Timer threads that exist (armed or running run_or_die)
    semaphores,              \* value of every Semaphore some thread refers to
    main_pc,                 \* where the main thread is
    idx,                     \* position of the for loop of minion_manager_work in _asg_metas
    attempts_to_converge,    \* local of check_scaling_group_instances
    calls,                   \* the last step's calls that change something or failed
    args,                        \* arguments of a function applied on its own
    result,                      \* what it returned: <<>> before the call, then <<value>>
    bid_advisor              \* AWSMinionManager.bid_advisor: the AWSBidAdvisor object

vars ==
    <<events_only, terminate_percentage, asg_tags, desired, asg_lc, launch_configs,
      ec2, activities, asg_metas,
      on_demand_kill_threads, threads, semaphores, main_pc, idx,
      attempts_to_converge, calls, args, result, bid_advisor>>

provider_vars == <<asg_tags, desired, asg_lc, launch_configs, ec2, activities>>

thread_vars == <<on_demand_kill_threads, threads, semaphores>>

main_vars == <<asg_metas, main_pc, idx, attempts_to_converge>>

config_vars == <<events_only, terminate_percentage>>

call_vars == <<args, result>>

SemIds == 1..(NumInstances + 1)

(***************************************************************************)
(* @retry: a call whose first `fails' attempts raise.                      *)
(***************************************************************************)
retry(fails) ==
    [ok |-> fails < stop_max_attempt_number,
     attempts |-> IF fails < stop_max_attempt_number
                  THEN fails + 1 ELSE stop_max_attempt_number]

\* A client call that no @retry wraps, or whose exception is caught before
\* the decorator sees it.
no_retry(fails) == [ok |-> fails = 0, attempts |-> 1]

\* The record of a call in `calls'.
call(caller, op, target, res) ==
    [caller |-> caller, op |-> op, target |-> target, SpotPrice |-> "n/a",
     ShouldDecrementDesiredCapacity |-> "n/a",
     result |-> IF res.ok THEN "ok" ELSE "error", attempts |-> res.attempts]

\* The calls that change the provider's state.
MutatingOps ==
    {"create_launch_configuration", "update_auto_scaling_group",
     "delete_launch_configuration", "terminate_instance_in_auto_scaling_group"}

(***************************************************************************)
(* asg_mm.py: the group record.                                            *)
(***************************************************************************)
\* str.lower() on the tag values of the model.
lower(v) ==
    IF v \in {"Use-Spot", "USE-SPOT"} THEN "use-spot"
    ELSE IF v = "No-Spot" THEN "no-spot" ELSE v

\* set_asg_info without the loop that overwrites the tag value.
set_asg_info_keeping_value(tags) == tags

\* set_asg_info: a value of the k8s-minion-manager tag that is neither
\* "use-spot" nor "no-spot" is overwritten by "no-spot".
set_asg_info(tags) ==
    IF tags.mm # "absent" /\ tags.mm \notin {"use-spot", "no-spot"}
    THEN [tags EXCEPT !.mm = "no-spot"]
    ELSE tags

get_mm_tag(asg_info) ==
    IF asg_info.mm # "absent" THEN lower(asg_info.mm) ELSE "no-spot"

\* The k8s-minion-manager/not-terminate tag of the group.
not_terminate_instance(asg_info) == asg_info.not_terminate

is_instance_running(instance) == instance.State = "running"

\* 'InstanceLifecycle' in instance
is_spot(instance) == instance.InstanceLifecycle = "spot"

(***************************************************************************)
(* The bid advisor.                                                        *)
(***************************************************************************)
\* The two refresher threads of the advisor.
Refreshers == {"OnDemandUpdater", "SpotInstancePriceUpdater"}

\* AWSBidAdvisor(...): no thread, no price data.  `refreshers' holds where
\* each refresher thread is: not started, about to test the stop signal and
\* refresh, asleep until the next refresh, or terminated.
AWSBidAdvisor ==
    [pc |-> "constructed",
     all_bid_advisor_threads |-> {},
     shutdown |-> FALSE,
     refreshers |-> [r \in Refreshers |-> "unborn"],
     on_demand_price_dict |-> <<>>,
     spot_price_list |-> <<>>]

create_on_demand_bid_info == [type |-> "on-demand", price |-> ""]

Max(S) == CHOOSE x \in S : \A y \in S : y <= x

\* get_new_bid choosing spot as soon as the maximum spot price is below the
\* on-demand price.
get_new_bid_without_margin(od, spots, zones, instance_type) ==
    IF DOMAIN od = {} \/ spots = <<>>
    THEN create_on_demand_bid_info
    ELSE IF instance_type \notin DOMAIN od
    THEN create_on_demand_bid_info
    ELSE LET matching == {k \in 1..Len(spots) :
                             /\ spots[k].InstanceType = instance_type
                             /\ spots[k].AvailabilityZone \in zones}
         IN  IF matching = {}
             THEN create_on_demand_bid_info
             ELSE LET max_spot == Max({float(spots[k].SpotPrice) : k \in matching})
                  IN  IF max_spot < float(od[instance_type])
                      THEN [type |-> "spot", price |-> od[instance_type]]
                      ELSE create_on_demand_bid_info

get_new_bid(od, spots, zones, instance_type) ==
    IF DOMAIN od = {} \/ spots = <<>>
    THEN create_on_demand_bid_info
    ELSE IF instance_type \notin DOMAIN od
    THEN create_on_demand_bid_info
    ELSE LET matching == {k \in 1..Len(spots) :
                             /\ spots[k].InstanceType = instance_type
                             /\ spots[k].AvailabilityZone \in zones}
         IN  IF matching = {}
             THEN create_on_demand_bid_info
             ELSE LET max_spot == Max({float(spots[k].SpotPrice) : k \in matching})
                  IN  IF max_spot * 12 < float(od[instance_type]) * 10
                      THEN [type |-> "spot", price |-> od[instance_type]]
                      ELSE create_on_demand_bid_info

\* get_new_bid_info(asg_meta) and the query of run_or_die, on the tables the
\* refreshers have left in `market'.
get_new_bid_info(market) == get_new_bid(market.od, market.spots, GroupZones, InstanceType)

\* are_bids_equal comparing the prices as numbers.
are_bids_equal_as_numbers(cur_bid_info, new_bid_info) ==
    IF cur_bid_info.type # new_bid_info.type
    THEN FALSE
    ELSE IF cur_bid_info.type = "on-demand"
    THEN TRUE
    ELSE float(cur_bid_info.price) = float(new_bid_info.price)

are_bids_equal(cur_bid_info, new_bid_info) ==
    IF cur_bid_info.type # new_bid_info.type
    THEN FALSE
    ELSE IF cur_bid_info.type = "on-demand"
    THEN TRUE
    ELSE cur_bid_info.price = new_bid_info.price

(***************************************************************************)
(* The capacity diagnostic.                                                *)
(***************************************************************************)
\* An activity is a record with the field Progress and, not always, the field
\* StatusMessage.  A status message is the sequence of the pieces of text it
\* is made of, and `literal in message' is the test that a piece is there.
INSUFFICIENT_CAPACITY_MESSAGE ==
    <<"We currently do not have sufficient",
      "capacity in the Availability Zone you requested">>

WAITING_SPOT_INSTANCE_MESSAGE ==
    <<"Placed Spot instance request:", "Waiting for instance(s)">>

contains(message, literal) == \E k \in 1..Len(message) : message[k] = literal

\* len([m for m in literals if m in message]) == len(literals)
contains_all(message, literals) ==
    \A j \in 1..Len(literals) : contains(message, literals[j])

\* The spot request ids of the model; "sir-" alone does not match
\* sir-[a-zA-Z0-9]+.
SpotRequestIds == {"sir-abc1", "sir-xyz2"}

\* spot_req_regex.search(message): the ids that stand between "Placed Spot
\* instance request: " and ". Waiting for instance(s)"; the first one is the
\* group spot_req_id.
spot_req_regex_search(message) ==
    {k \in 1..(Len(message) - 2) :
        /\ message[k] = WAITING_SPOT_INSTANCE_MESSAGE[1]
        /\ message[k + 1] \in SpotRequestIds
        /\ message[k + 2] = WAITING_SPOT_INSTANCE_MESSAGE[2]}

\* check_spot_request_insufficient_capacity testing one status code only.
check_spot_request_only_oversubscribed(requests) ==
    \E k \in 1..Len(requests) :
        /\ "Status" \in DOMAIN requests[k]
        /\ "Code" \in DOMAIN requests[k].Status
        /\ requests[k].Status.Code = "capacity-oversubscribed"

\* check_spot_request_insufficient_capacity on the SpotInstanceRequests that
\* describe_spot_instance_requests returns.
check_spot_request_insufficient_capacity(requests) ==
    \E k \in 1..Len(requests) :
        /\ "Status" \in DOMAIN requests[k]
        /\ "Code" \in DOMAIN requests[k].Status
        /\ \/ requests[k].Status.Code = "capacity-oversubscribed"
           \/ requests[k].Status.Code = "capacity-not-available"

\* check_insufficient_capacity without the test of Progress.
check_insufficient_capacity_counting_completed(acts, spot_requests) ==
    \E k \in 1..Len(acts) :
        /\ "StatusMessage" \in DOMAIN acts[k]
        /\ \/ contains_all(acts[k].StatusMessage, INSUFFICIENT_CAPACITY_MESSAGE)
           \/ /\ contains_all(acts[k].StatusMessage, WAITING_SPOT_INSTANCE_MESSAGE)
              /\ spot_req_regex_search(acts[k].StatusMessage) # {}
              /\ LET at == CHOOSE j \in spot_req_regex_search(acts[k].StatusMessage) :
                              \A i \in spot_req_regex_search(acts[k].StatusMessage) : j <= i
                 IN  check_spot_request_insufficient_capacity(
                         spot_requests[acts[k].StatusMessage[at + 1]])

\* check_insufficient_capacity on the Activities that
\* describe_scaling_activities returns; spot_requests[id] is what
\* describe_spot_instance_requests returns for the request id.
check_insufficient_capacity(acts, spot_requests) ==
    \E k \in 1..Len(acts) :
        /\ acts[k].Progress # 100
        /\ "StatusMessage" \in DOMAIN acts[k]
        /\ \/ contains_all(acts[k].StatusMessage, INSUFFICIENT_CAPACITY_MESSAGE)
           \/ /\ contains_all(acts[k].StatusMessage, WAITING_SPOT_INSTANCE_MESSAGE)
              /\ spot_req_regex_search(acts[k].StatusMessage) # {}
              /\ LET at == CHOOSE j \in spot_req_regex_search(acts[k].StatusMessage) :
                              \A i \in spot_req_regex_search(acts[k].StatusMessage) : j <= i
                 IN  check_spot_request_insufficient_capacity(
                         spot_requests[acts[k].StatusMessage[at + 1]])

\* The status message of an activity that failed for lack of capacity.
InsufficientCapacityStatus ==
    <<"Launching a new EC2 instance. Status Reason:",
      "We currently do not have sufficient", "m3.medium",
      "capacity in the Availability Zone you requested">>

\* No spot request is outstanding.
NoSpotRequests == [id \in SpotRequestIds |-> <<>>]

(***************************************************************************)
(* update_needed and check_scaling_group_instances.                        *)
(***************************************************************************)
\* The test of line 752 with == in place of <=.
observation_converged_on_equality(asg) == asg.DesiredCapacity = asg.Instances

\* One observation of check_scaling_group_instances.
observation_converged(asg) == asg.DesiredCapacity <= asg.Instances

\* check_scaling_group_instances on the observations its (at most) three
\* describe calls return.
check_scaling_group_instances(observations) ==
    \E k \in 1..Len(observations) : observation_converged(observations[k])

\* update_needed without its except clause.
update_needed_without_except(asg_tag, bid_info, advisor_raises, converged, describe_raises) ==
    IF asg_tag = "no-spot" /\ bid_info.type = "spot"
    THEN TRUE
    ELSE IF asg_tag = "no-spot" /\ bid_info.type = "on-demand"
    THEN FALSE
    ELSE IF bid_info.type = "on-demand"
    THEN TRUE
    ELSE ~converged

update_needed(asg_tag, bid_info, advisor_raises, converged, describe_raises) ==
    IF bid_info.price = "" /\ advisor_raises
    THEN FALSE
    ELSE IF asg_tag = "no-spot" /\ bid_info.type = "spot"
    THEN TRUE
    ELSE IF asg_tag = "no-spot" /\ bid_info.type = "on-demand"
    THEN FALSE
    ELSE IF bid_info.type = "on-demand"
    THEN TRUE
    ELSE IF describe_raises
    THEN FALSE
    ELSE ~converged

(***************************************************************************)
(* set_semaphore.                                                          *)
(***************************************************************************)
clamp_percentage(p) == IF p > 100 THEN 100 ELSE IF p <= 0 THEN 1 ELSE p

\* set_semaphore with int() in place of int(round()).
set_semaphore_truncating(desired_instances, percentage) ==
    LET svalue == (desired_instances * clamp_percentage(percentage)) \div 100
    IN  IF svalue = 0 THEN 1 ELSE svalue

\* int(round(desired_instances * (terminate_percentage / 100.0))), halves away
\* from zero, and 1 when that is 0.
set_semaphore(desired_instances, percentage) ==
    LET svalue == (2 * desired_instances * clamp_percentage(percentage) + 100) \div 200
    IN  IF svalue = 0 THEN 1 ELSE svalue


(***************************************************************************)
(* What the provider reports.                                              *)
(***************************************************************************)
\* The instances describe_auto_scaling_groups lists for group g, which are
\* also the healthy ones.
asg_instances(g) == {i \in Instances : ec2[i].asg = g /\ ec2[i].State = "running"}

describe_asg(g) ==
    [DesiredCapacity |-> desired[g], Instances |-> Cardinality(asg_instances(g))]

\* The record describe_instances returns for instance i.
describe_instance(i) ==
    [InstanceLifecycle |-> ec2[i].InstanceLifecycle, State |-> ec2[i].State]

\* describe_auto_scaling_groups(MaxRecords=100): the provider answers with the
\* first MaxRecords groups of the account; the NextToken of the answer is
\* not followed.
MaxRecords == 100

describe_auto_scaling_groups(account) ==
    SubSeq(account, 1, IF Len(account) > MaxRecords THEN MaxRecords ELSE Len(account))

\* get_asgs_with_tags on an account given as the sequence of its groups, of
\* which those outside Groups carry no tag.
get_asgs_with_tags_of(account, tags) ==
    SelectSeq(describe_auto_scaling_groups(account),
              LAMBDA g : g \in Groups /\ tags[g].cluster /\ tags[g].mm # "absent")

\* get_asgs_with_tags: the groups that carry the KubernetesCluster tag of this
\* cluster and a k8s-minion-manager tag, in the provider's order.
get_asgs_with_tags(tags) == get_asgs_with_tags_of(GroupOrder, tags)

\* populate_current_config without the test of "SpotPrice" in launch_config.
populate_current_config_without_spot_price(g) ==
    LET spot_price == launch_configs[asg_lc[g]]
    IN  [name |-> g,
         asg_info |-> set_asg_info(asg_tags[g]),
         lc_info |-> [LaunchConfigurationName |-> asg_lc[g], SpotPrice |-> spot_price],
         bid_info |-> [type |-> "on-demand", price |-> ""]]

\* discover_asgs followed by populate_current_config, for one group.  The
\* record's instance_info starts as an empty dict in every pass, is filled by
\* populate_instances and read by schedule_instance_termination in the same
\* step of the loop, and nothing reads it afterwards: it is a local of
\* ProcessGroup here.
populate_current_config(g) ==
    LET spot_price == launch_configs[asg_lc[g]]
    IN  [name |-> g,
         asg_info |-> set_asg_info(asg_tags[g]),
         lc_info |-> [LaunchConfigurationName |-> asg_lc[g], SpotPrice |-> spot_price],
         bid_info |-> IF spot_price # "none"
                      THEN [type |-> "spot", price |-> spot_price]
                      ELSE [type |-> "on-demand", price |-> ""]]

discover_asgs ==
    LET found == get_asgs_with_tags(asg_tags)
    IN  [k \in 1..Len(found) |-> populate_current_config(found[k])]

\* add_instances: the instances not yet in instance_info are added.
add_instances(instance_info, ids) ==
    [i \in (DOMAIN instance_info) \cup ids |->
        IF i \in DOMAIN instance_info THEN instance_info[i] ELSE describe_instance(i)]

(***************************************************************************)
(* schedule_instance_termination: the instances it starts a Timer for.     *)
(***************************************************************************)
\* The loop without the test of on_demand_kill_threads.
termination_candidates_ignoring_pending(asg_meta, instance_info, kill_threads) ==
    LET asg_tag == get_mm_tag(asg_meta.asg_info)
    IN  {i \in DOMAIN instance_info :
            /\ ~(is_spot(instance_info[i]) /\ asg_tag = "use-spot")
            /\ ~(asg_tag = "no-spot" /\ ~is_spot(instance_info[i]))
            /\ is_instance_running(instance_info[i])}

\* The loop without the test that skips on-demand instances under no-spot.
termination_candidates_ignoring_no_spot(asg_meta, instance_info, kill_threads) ==
    LET asg_tag == get_mm_tag(asg_meta.asg_info)
    IN  {i \in DOMAIN instance_info :
            /\ ~(is_spot(instance_info[i]) /\ asg_tag = "use-spot")
            /\ is_instance_running(instance_info[i])
            /\ i \notin kill_threads}

\* The for loop of schedule_instance_termination (lines 586-631).
termination_candidates(asg_meta, instance_info, kill_threads) ==
    LET asg_tag == get_mm_tag(asg_meta.asg_info)
    IN  {i \in DOMAIN instance_info :
            /\ ~(is_spot(instance_info[i]) /\ asg_tag = "use-spot")
            /\ ~(asg_tag = "no-spot" /\ ~is_spot(instance_info[i]))
            /\ is_instance_running(instance_info[i])
            /\ i \notin kill_threads}

\* schedule_instance_termination without the test of _events_only.
schedule_instance_termination_in_events_only(asg_meta, instance_info, kill_threads, ev_only) ==
    IF DOMAIN instance_info = {}
    THEN {}
    ELSE IF not_terminate_instance(asg_meta.asg_info)
    THEN {}
    ELSE termination_candidates(asg_meta, instance_info, kill_threads)

\* schedule_instance_termination without the test of the not-terminate tag.
schedule_instance_termination_with_not_terminate(asg_meta, instance_info, kill_threads, ev_only) ==
    IF DOMAIN instance_info = {}
    THEN {}
    ELSE IF ev_only
    THEN {}
    ELSE termination_candidates(asg_meta, instance_info, kill_threads)

schedule_instance_termination(asg_meta, instance_info, kill_threads, ev_only) ==
    IF DOMAIN instance_info = {}
    THEN {}
    ELSE IF not_terminate_instance(asg_meta.asg_info)
    THEN {}
    ELSE IF ev_only
    THEN {}
    ELSE termination_candidates(asg_meta, instance_info, kill_threads)

\* True when schedule_instance_termination gets as far as set_semaphore.
reaches_set_semaphore(asg_meta, instance_info, ev_only) ==
    /\ DOMAIN instance_info # {}
    /\ ~not_terminate_instance(asg_meta.asg_info)
    /\ ~ev_only

\* The Semaphore object a scheduling call constructs: an id no thread refers to.
fresh_semaphore ==
    CHOOSE s \in SemIds :
        /\ \A t \in threads : t.sem # s
        /\ \A r \in SemIds : (\A t \in threads : t.sem # r) => s <= r

(***************************************************************************)
(* update_scaling_group.                                                   *)
(***************************************************************************)
\* The name left as it is.
new_lc_name_keeping_name(name) == name

\* Lines 395-398: strip a trailing "-0", or append one.
new_lc_name(name) ==
    IF name[2] > 0 THEN <<name[1], name[2] - 1>> ELSE <<name[1], name[2] + 1>>

\* create_lc_with_spot and create_lc_on_demand with the except clause that
\* returns on "AlreadyExists" removed: the error is raised on every attempt.
create_lc_raising_already_exists(new_name, spot_price, lcs, fail) ==
    IF lcs[new_name] # "absent" \/ fail = "create"
    THEN [res |-> retry(stop_max_attempt_number), result |-> "error", lcs |-> lcs]
    ELSE [res |-> retry(0), result |-> "ok", lcs |-> [lcs EXCEPT ![new_name] = spot_price]]

\* create_lc_with_spot and create_lc_on_demand: the provider answers
\* "AlreadyExists" when a launch configuration of that name exists, and the
\* method logs it and returns; any other error is raised on every attempt.
\* SpotPrice is "none" for create_lc_on_demand.
create_lc(new_name, spot_price, lcs, fail) ==
    IF lcs[new_name] # "absent"
    THEN [res |-> retry(0), result |-> "AlreadyExists", lcs |-> lcs]
    ELSE IF fail = "create"
    THEN [res |-> retry(stop_max_attempt_number), result |-> "error", lcs |-> lcs]
    ELSE [res |-> retry(0), result |-> "ok", lcs |-> [lcs EXCEPT ![new_name] = spot_price]]

\* update_scaling_group with lines 425-432, the update of the record, moved
\* before the delete of the old launch configuration.
update_scaling_group_record_before_delete(asg_meta, new_bid_info, ev_only, lcs, pointer, fail) ==
    IF ev_only
    THEN [asg_meta |-> asg_meta, lcs |-> lcs, pointer |-> pointer,
          calls |-> <<>>, raised |-> FALSE]
    ELSE
    LET orig == asg_meta.lc_info.LaunchConfigurationName
        spot_price == IF new_bid_info.type = "spot" THEN new_bid_info.price ELSE "none"
        new_name == new_lc_name(orig)
        created == create_lc(new_name, spot_price, lcs, fail)
        create_res == created.res
        create_call == [call("update_scaling_group", "create_launch_configuration",
                             new_name, create_res)
                            EXCEPT !.SpotPrice = spot_price,
                                   !.result = created.result]
        lcs1 == created.lcs
        update_res == retry(IF fail = "update" THEN stop_max_attempt_number ELSE 0)
        update_call == call("update_scaling_group", "update_auto_scaling_group",
                            asg_meta.name, update_res)
        delete_res == retry(IF fail = "delete" THEN stop_max_attempt_number ELSE 0)
        delete_call == call("update_scaling_group", "delete_launch_configuration",
                            orig, delete_res)
        lcs2 == [lcs1 EXCEPT ![orig] = "absent"]
    IN  IF ~create_res.ok
        THEN [asg_meta |-> asg_meta, lcs |-> lcs1, pointer |-> pointer,
              calls |-> <<create_call>>, raised |-> TRUE]
        ELSE IF ~update_res.ok
        THEN [asg_meta |-> asg_meta, lcs |-> lcs1, pointer |-> pointer,
              calls |-> <<create_call, update_call>>, raised |-> TRUE]
        ELSE IF ~delete_res.ok
        THEN [asg_meta |-> [asg_meta EXCEPT
                               !.lc_info = [LaunchConfigurationName |-> new_name,
                                            SpotPrice |-> spot_price],
                               !.bid_info = new_bid_info],
              lcs |-> lcs1, pointer |-> new_name,
              calls |-> <<create_call, update_call, delete_call>>, raised |-> TRUE]
        ELSE [asg_meta |-> [asg_meta EXCEPT
                               !.lc_info = [LaunchConfigurationName |-> new_name,
                                            SpotPrice |-> spot_price],
                               !.bid_info = new_bid_info],
              lcs |-> lcs2, pointer |-> new_name,
              calls |-> <<create_call, update_call, delete_call>>, raised |-> FALSE]

\* The result of update_scaling_group(asg_meta, new_bid_info) when the call
\* named by `fail' loses all its attempts: the record, the provider's
\* launch configurations and the group's pointer afterwards, the calls
\* issued, and whether an exception leaves the method.
update_scaling_group(asg_meta, new_bid_info, ev_only, lcs, pointer, fail) ==
    IF ev_only
    THEN [asg_meta |-> asg_meta, lcs |-> lcs, pointer |-> pointer,
          calls |-> <<>>, raised |-> FALSE]
    ELSE
    LET orig == asg_meta.lc_info.LaunchConfigurationName
        spot_price == IF new_bid_info.type = "spot" THEN new_bid_info.price ELSE "none"
        new_name == new_lc_name(orig)
        created == create_lc(new_name, spot_price, lcs, fail)
        create_res == created.res
        create_call == [call("update_scaling_group", "create_launch_configuration",
                             new_name, create_res)
                            EXCEPT !.SpotPrice = spot_price,
                                   !.result = created.result]
        lcs1 == created.lcs
        update_res == retry(IF fail = "update" THEN stop_max_attempt_number ELSE 0)
        update_call == call("update_scaling_group", "update_auto_scaling_group",
                            asg_meta.name, update_res)
        delete_res == retry(IF fail = "delete" THEN stop_max_attempt_number ELSE 0)
        delete_call == call("update_scaling_group", "delete_launch_configuration",
                            orig, delete_res)
        lcs2 == [lcs1 EXCEPT ![orig] = "absent"]
    IN  IF ~create_res.ok
        THEN [asg_meta |-> asg_meta, lcs |-> lcs1, pointer |-> pointer,
              calls |-> <<create_call>>, raised |-> TRUE]
        ELSE IF ~update_res.ok
        THEN [asg_meta |-> asg_meta, lcs |-> lcs1, pointer |-> pointer,
              calls |-> <<create_call, update_call>>, raised |-> TRUE]
        ELSE IF ~delete_res.ok
        THEN [asg_meta |-> asg_meta, lcs |-> lcs1, pointer |-> new_name,
              calls |-> <<create_call, update_call, delete_call>>, raised |-> TRUE]
        ELSE [asg_meta |-> [asg_meta EXCEPT
                               !.lc_info = [LaunchConfigurationName |-> new_name,
                                            SpotPrice |-> spot_price],
                               !.bid_info = new_bid_info],
              lcs |-> lcs2, pointer |-> new_name,
              calls |-> <<create_call, update_call, delete_call>>, raised |-> FALSE]

(***************************************************************************)
(* minion_manager_work, lines 675-698: what is done for a group once       *)
(* update_needed returned True.                                            *)
(***************************************************************************)
\* Lines 675-698 without the call of check_insufficient_capacity.
apply_update_ignoring_capacity(asg_meta, ev_only, lcs, pointer, market, fail) ==
    LET unchanged == [asg_meta |-> asg_meta, lcs |-> lcs, pointer |-> pointer,
                      calls |-> <<>>, raised |-> FALSE]
    IN  IF get_mm_tag(asg_meta.asg_info) = "no-spot" /\ asg_meta.bid_info.type = "spot"
        THEN update_scaling_group(asg_meta, create_on_demand_bid_info, ev_only,
                                  lcs, pointer, fail)
        ELSE IF are_bids_equal(asg_meta.bid_info, get_new_bid_info(market))
        THEN unchanged
        ELSE update_scaling_group(asg_meta, get_new_bid_info(market), ev_only,
                                  lcs, pointer, fail)

\* Lines 675-698 without the test of are_bids_equal.
apply_update_without_equality_test(asg_meta, ev_only, lcs, pointer, market, fail) ==
    LET unchanged == [asg_meta |-> asg_meta, lcs |-> lcs, pointer |-> pointer,
                      calls |-> <<>>, raised |-> FALSE]
        bid_info == asg_meta.bid_info
    IN  IF get_mm_tag(asg_meta.asg_info) = "no-spot" /\ bid_info.type = "spot"
        THEN update_scaling_group(asg_meta, create_on_demand_bid_info, ev_only,
                                  lcs, pointer, fail)
        ELSE IF fail = "advisor"
        THEN [unchanged EXCEPT
                !.raised = TRUE,
                !.calls = <<call("minion_manager_work", "get_new_bid",
                                 asg_meta.name, no_retry(1))>>]
        ELSE IF fail = "describe_activities"
        THEN [unchanged EXCEPT
                !.raised = TRUE,
                !.calls = <<call("check_insufficient_capacity", "describe_scaling_activities",
                                 asg_meta.name, retry(stop_max_attempt_number))>>]
        ELSE IF check_insufficient_capacity(activities[asg_meta.name], NoSpotRequests)
        THEN update_scaling_group(asg_meta, create_on_demand_bid_info, ev_only,
                                  lcs, pointer, fail)
        ELSE update_scaling_group(asg_meta, get_new_bid_info(market), ev_only,
                                  lcs, pointer, fail)

apply_update(asg_meta, ev_only, lcs, pointer, market, fail) ==
    LET unchanged == [asg_meta |-> asg_meta, lcs |-> lcs, pointer |-> pointer,
                      calls |-> <<>>, raised |-> FALSE]
        bid_info == asg_meta.bid_info
    IN  IF get_mm_tag(asg_meta.asg_info) = "no-spot" /\ bid_info.type = "spot"
        THEN update_scaling_group(asg_meta, create_on_demand_bid_info, ev_only,
                                  lcs, pointer, fail)
        ELSE IF fail = "advisor"
        THEN [unchanged EXCEPT
                !.raised = TRUE,
                !.calls = <<call("minion_manager_work", "get_new_bid",
                                 asg_meta.name, no_retry(1))>>]
        ELSE IF fail = "describe_activities"
        THEN [unchanged EXCEPT
                !.raised = TRUE,
                !.calls = <<call("check_insufficient_capacity", "describe_scaling_activities",
                                 asg_meta.name, retry(stop_max_attempt_number))>>]
        ELSE IF check_insufficient_capacity(activities[asg_meta.name], NoSpotRequests)
        THEN update_scaling_group(asg_meta, create_on_demand_bid_info, ev_only,
                                  lcs, pointer, fail)
        ELSE IF are_bids_equal(asg_meta.bid_info, get_new_bid_info(market))
        THEN unchanged
        ELSE update_scaling_group(asg_meta, get_new_bid_info(market), ev_only,
                                  lcs, pointer, fail)


(***************************************************************************)
(* The main thread: run() and minion_manager_work().                       *)
(***************************************************************************)
\* The price tables a query of the bid advisor may find: empty before the
\* first refresh, and afterwards the on-demand price with a spot price that is
\* far below it or close to it.
OnDemandTable == [t \in {InstanceType} |-> "0.10"]

SpotTable(p) ==
    <<[InstanceType |-> InstanceType, SpotPrice |-> p, AvailabilityZone |-> "us-west-2a"]>>

Markets ==
    {[od |-> <<>>, spots |-> <<>>],
     [od |-> OnDemandTable, spots |-> SpotTable("0.05")],
     [od |-> OnDemandTable, spots |-> SpotTable("0.09")]}

\* The calls of one handling of a group, or of one run_or_die, that may lose
\* all their attempts.  The first one that does ends the handling, so at most
\* one matters.
MainFailPoints ==
    {"none", "describe_asg", "describe_instances", "set_semaphore",
     "advisor_update_needed", "describe_converge", "advisor",
     "describe_activities", "create", "update", "delete"}

\* Where the for loop goes after the group at idx: to the next group, or to
\* the finally clause when the groups are exhausted or an exception was raised.
next_pc(raised) == IF raised \/ idx >= Len(asg_metas) THEN "sleep" ELSE "pass"

next_idx(raised) == IF raised \/ idx >= Len(asg_metas) THEN 0 ELSE idx + 1

\* update_needed returned False: the for loop continues with the next group.
\* `swallowed' holds the call whose exception update_needed caught, if any.
Continue(asg_meta, swallowed) ==
    /\ asg_metas' = [asg_metas EXCEPT ![idx] = asg_meta]
    /\ main_pc' = next_pc(FALSE)
    /\ idx' = next_idx(FALSE)
    /\ attempts_to_converge' = 0
    /\ calls' = swallowed
    /\ UNCHANGED <<launch_configs, asg_lc>>

\* The exception of `failed_call' caught inside the for loop: the loop goes on
\* with the next group.
Raise_inside_loop(asg_meta, failed_call) ==
    /\ asg_metas' = [asg_metas EXCEPT ![idx] = asg_meta]
    /\ main_pc' = next_pc(FALSE)
    /\ idx' = next_idx(FALSE)
    /\ attempts_to_converge' = 0
    /\ calls' = <<failed_call>>
    /\ UNCHANGED <<launch_configs, asg_lc>>

\* The exception of `failed_call' leaves the try block of minion_manager_work.
Raise(asg_meta, failed_call) ==
    /\ asg_metas' = [asg_metas EXCEPT ![idx] = asg_meta]
    /\ main_pc' = next_pc(TRUE)
    /\ idx' = next_idx(TRUE)
    /\ attempts_to_converge' = 0
    /\ calls' = <<failed_call>>
    /\ UNCHANGED <<launch_configs, asg_lc>>

\* The describe call of check_scaling_group_instances that lost all its attempts.
describe_failed(g) ==
    call("check_scaling_group_instances", "describe_auto_scaling_groups", g,
         retry(stop_max_attempt_number))

\* update_needed returned True: lines 675-698.
Apply(asg_meta, market, fail) ==
    LET res == apply_update(asg_meta, events_only, launch_configs,
                            asg_lc[asg_meta.name], market, fail)
    IN  /\ asg_metas' = [asg_metas EXCEPT ![idx] = res.asg_meta]
        /\ launch_configs' = res.lcs
        /\ asg_lc' = [asg_lc EXCEPT ![asg_meta.name] = res.pointer]
        /\ calls' = res.calls
        /\ main_pc' = next_pc(res.raised)
        /\ idx' = next_idx(res.raised)
        /\ attempts_to_converge' = 0

\* The loop body after update_needed returned `need'.
Decide(asg_meta, need, market, fail, swallowed) ==
    IF need THEN Apply(asg_meta, market, fail) ELSE Continue(asg_meta, swallowed)

\* A failed discovery swallowed like an exception of the pass: the loop sleeps
\* and goes on without records.
Discover_swallowing(fail) ==
    IF \/ fail = "discover"
       \/ /\ fail = "describe_lc"
          /\ get_asgs_with_tags(asg_tags) # <<>>
    THEN /\ main_pc' = "sleep"
         /\ asg_metas' = <<>>
         /\ idx' = 0
         /\ UNCHANGED threads
    ELSE /\ asg_metas' = discover_asgs
         /\ main_pc' = IF discover_asgs = <<>> THEN "sleep" ELSE "pass"
         /\ idx' = IF discover_asgs = <<>> THEN 0 ELSE 1
         /\ UNCHANGED threads

\* run(): the first discovery.  minion_manager_work's finally clause: the
\* sleep, then the rediscovery.  A failure of either aborts the process.
Discover(fail) ==
    IF \/ fail = "discover"
       \/ /\ fail = "describe_lc"
          /\ get_asgs_with_tags(asg_tags) # <<>>
    THEN /\ main_pc' = "dead"
         /\ asg_metas' = <<>>
         /\ idx' = 0
         /\ UNCHANGED threads
    ELSE /\ asg_metas' = discover_asgs
         /\ main_pc' = IF discover_asgs = <<>> THEN "sleep" ELSE "pass"
         /\ idx' = IF discover_asgs = <<>> THEN 0 ELSE 1
         /\ UNCHANGED threads

Run ==
    /\ main_pc = "init"
    /\ \E fail \in {"none", "discover", "describe_lc"} : Discover(fail)
    /\ attempts_to_converge' = 0
    /\ calls' = <<>>
    /\ UNCHANGED <<provider_vars, config_vars,
                   on_demand_kill_threads, semaphores, call_vars, bid_advisor>>

Rediscover ==
    /\ main_pc = "sleep"
    /\ \E fail \in {"none", "discover", "describe_lc"} : Discover(fail)
    /\ attempts_to_converge' = 0
    /\ calls' = <<>>
    /\ UNCHANGED <<provider_vars, config_vars,
                   on_demand_kill_threads, semaphores, call_vars, bid_advisor>>

\* One group of the for loop: populate_instances, schedule_instance_termination,
\* update_needed up to the first sleep of check_scaling_group_instances, and,
\* when update_needed returns at once, the rest of the loop body.
ProcessGroup ==
    /\ main_pc = "pass"
    /\ \E fail \in MainFailPoints, market \in Markets :
        LET m0 == asg_metas[idx]
            g == m0.name
            ids == asg_instances(g)
            populate_raised ==
                \/ fail = "describe_asg"
                \/ ids # {} /\ fail = "describe_instances"
            m1 == m0
            instance_info == add_instances(<<>>, ids)
            asg_tag == get_mm_tag(m1.asg_info)
            semaphore_raised ==
                reaches_set_semaphore(m1, instance_info, events_only) /\ fail = "set_semaphore"
            registered ==
                schedule_instance_termination(m1, instance_info, on_demand_kill_threads,
                                              events_only)
            asg_semaphore == fresh_semaphore
            timers == {[instance |-> i, asg |-> g, mm_tag |-> asg_tag,
                        sem |-> asg_semaphore, pc |-> "timer", bid_type |-> "none"] :
                          i \in registered}
        IN  IF populate_raised
            THEN /\ Raise(m0, call("populate_instances",
                                   IF fail = "describe_asg"
                                   THEN "describe_auto_scaling_groups"
                                   ELSE "describe_instances",
                                   g, retry(stop_max_attempt_number)))
                 /\ UNCHANGED <<thread_vars, terminate_percentage>>
            ELSE IF semaphore_raised
            THEN /\ Raise(m1, call("set_semaphore", "describe_auto_scaling_groups",
                                   g, no_retry(1)))
                 /\ UNCHANGED <<thread_vars, terminate_percentage>>
            ELSE
              /\ terminate_percentage' =
                    IF reaches_set_semaphore(m1, instance_info, events_only)
                    THEN clamp_percentage(terminate_percentage)
                    ELSE terminate_percentage
              /\ threads' = threads \cup timers
              /\ on_demand_kill_threads' = on_demand_kill_threads \cup registered
              /\ semaphores' =
                    IF registered # {}
                    THEN [semaphores EXCEPT
                            ![asg_semaphore] = set_semaphore(desired[g], terminate_percentage)]
                    ELSE semaphores
              /\ IF asg_tag # "no-spot" /\ m1.bid_info.type = "spot"
                 THEN \* check_scaling_group_instances, first attempt
                      IF fail = "describe_converge"
                      THEN Decide(m1, update_needed(asg_tag, m1.bid_info, FALSE, FALSE, TRUE),
                                  market, fail, <<describe_failed(g)>>)
                      ELSE IF observation_converged(describe_asg(g))
                      THEN Decide(m1, update_needed(asg_tag, m1.bid_info, FALSE, TRUE, FALSE),
                                  market, fail, <<>>)
                      ELSE /\ asg_metas' = [asg_metas EXCEPT ![idx] = m1]
                           /\ main_pc' = "converge"
                           /\ attempts_to_converge' = 2
                           /\ calls' = <<>>
                           /\ UNCHANGED <<idx, launch_configs, asg_lc>>
                 ELSE Decide(m1, update_needed(asg_tag, m1.bid_info,
                                               fail = "advisor_update_needed", TRUE, FALSE),
                             market, fail,
                             IF fail = "advisor_update_needed" /\ m1.bid_info.price = ""
                             THEN <<call("update_needed", "get_new_bid", g, no_retry(1))>>
                             ELSE <<>>)
    /\ UNCHANGED <<events_only, asg_tags, desired, ec2, activities, call_vars, bid_advisor>>

\* check_scaling_group_instances after a sleep of 60 s: the next attempt.
Converge ==
    /\ main_pc = "converge"
    /\ \E fail \in MainFailPoints, market \in Markets :
        LET m == asg_metas[idx]
            asg_tag == get_mm_tag(m.asg_info)
        IN  IF fail = "describe_converge"
            THEN Decide(m, update_needed(asg_tag, m.bid_info, FALSE, FALSE, TRUE), market, fail,
                        <<describe_failed(m.name)>>)
            ELSE IF observation_converged(describe_asg(m.name))
            THEN Decide(m, update_needed(asg_tag, m.bid_info, FALSE, TRUE, FALSE), market, fail,
                        <<>>)
            ELSE IF attempts_to_converge > 1
            THEN /\ attempts_to_converge' = attempts_to_converge - 1
                 /\ calls' = <<>>
                 /\ UNCHANGED <<asg_metas, main_pc, idx, launch_configs, asg_lc>>
            ELSE Decide(m, update_needed(asg_tag, m.bid_info, FALSE, FALSE, FALSE), market, fail,
                        <<>>)
    /\ UNCHANGED <<events_only, terminate_percentage, asg_tags, desired, ec2, activities,
                   thread_vars, call_vars, bid_advisor>>


(***************************************************************************)
(* The termination threads: run_or_die.                                    *)
(***************************************************************************)
\* The guards of run_or_die without the test of the recommendation.
run_or_die_aborts_ignoring_bid(mm_tag, is_spot_instance, bid_type) ==
    \/ mm_tag = "use-spot" /\ is_spot_instance
    \/ mm_tag = "no-spot" /\ ~is_spot_instance

\* Lines 500-517: the cases in which run_or_die returns False at once.
run_or_die_aborts(mm_tag, is_spot_instance, bid_type) ==
    \/ mm_tag = "use-spot" /\ is_spot_instance
    \/ mm_tag = "no-spot" /\ ~is_spot_instance
    \/ mm_tag = "use-spot" /\ ~is_spot_instance /\ bid_type = "on-demand"

\* What happens inside cordon_node: the node is not in the cluster, the drain
\* succeeds, the drain fails and the uncordon succeeds, the drain and the
\* uncordon fail, the lookup of the node fails.
CordonOutcomes == {"no_node", "drained", "uncordoned", "uncordon_failed", "lookup_failed"}

\* cordon_node returns True unless the uncordon or the lookup raises.
cordon_node(outcome) == outcome \in {"no_node", "drained", "uncordoned"}

\* The orchestrator calls of cordon_node that change the node or fail.
cordon_calls(outcome, instance_id) ==
    LET drain(ok) == call("cordon_node", "kubectl drain", instance_id, no_retry(IF ok THEN 0 ELSE 1))
        uncordon(ok) ==
            call("cordon_node", "kubectl uncordon", instance_id, no_retry(IF ok THEN 0 ELSE 1))
    IN  CASE outcome = "no_node" -> <<>>
          [] outcome = "drained" -> <<drain(TRUE)>>
          [] outcome = "uncordoned" -> <<drain(FALSE), uncordon(TRUE)>>
          [] outcome = "uncordon_failed" -> <<drain(FALSE), uncordon(FALSE)>>
          [] outcome = "lookup_failed" ->
                <<call("get_name_for_instance", "list_node", instance_id, no_retry(1))>>

\* Semaphores no thread refers to any more have no value.
collect(sems, ts) ==
    [s \in SemIds |-> IF \E t \in ts : t.sem = s THEN sems[s] ELSE 0]

\* The Timer fires and run_or_die asks the bid advisor (lines 494-497).  When
\* the query raises on every attempt of @retry, the exception ends the thread.
TimerFire(t) ==
    /\ t.pc = "timer"
    /\ main_pc \notin {"init", "dead"}
    /\ \E fails \in FailChoices, market \in Markets :
        IF retry(fails).ok
        THEN /\ threads' = (threads \ {t}) \cup
                    {[t EXCEPT !.pc = "blocked",
                               !.bid_type = get_new_bid_info(market).type]}
             /\ UNCHANGED semaphores
             /\ calls' = <<>>
        ELSE /\ threads' = threads \ {t}
             /\ semaphores' = collect(semaphores, threads \ {t})
             /\ calls' = <<call("run_or_die", "get_new_bid", t.instance, retry(fails))>>
    /\ UNCHANGED <<provider_vars, config_vars, main_vars,
                   on_demand_kill_threads, call_vars, bid_advisor>>

\* run_or_die leaves the with block: the finally clause pops the entry and the
\* semaphore is released.
Finish(t, sems) ==
    /\ threads' = threads \ {t}
    /\ on_demand_kill_threads' = on_demand_kill_threads \ {t.instance}
    /\ semaphores' = collect(sems, threads \ {t})

\* run_or_die with the three guards of lines 501-517 moved before the with
\* block: a task that aborts does not wait for the semaphore.
Admit_guards_first(t) ==
    /\ t.pc = "blocked"
    /\ main_pc \notin {"init", "dead"}
    /\ \/ semaphores[t.sem] > 0
       \/ run_or_die_aborts(t.mm_tag, is_spot([InstanceLifecycle |-> ec2[t.instance].InstanceLifecycle]), t.bid_type)
    /\ \E outcome \in CordonOutcomes, fails \in FailChoices :
        LET instance == describe_instance(t.instance)
            res == no_retry(fails)
            terminate_call ==
                [call("run_or_die", "terminate_instance_in_auto_scaling_group",
                      t.instance, res)
                 EXCEPT !.ShouldDecrementDesiredCapacity = "False"]
            cordon == cordon_calls(outcome, t.instance)
        IN  IF run_or_die_aborts(t.mm_tag, is_spot([InstanceLifecycle |-> ec2[t.instance].InstanceLifecycle]), t.bid_type)
            THEN /\ Finish(t, semaphores)
                 /\ calls' = <<>>
                 /\ UNCHANGED ec2
            ELSE IF ~cordon_node(outcome)
            THEN /\ Finish(t, semaphores)
                 /\ calls' = cordon
                 /\ UNCHANGED ec2
            ELSE IF ~res.ok
            THEN /\ Finish(t, semaphores)
                 /\ calls' = Append(cordon, terminate_call)
                 /\ UNCHANGED ec2
            ELSE /\ calls' = Append(cordon, terminate_call)
                 /\ ec2' = [ec2 EXCEPT ![t.instance].State = "terminated"]
                 /\ threads' = (threads \ {t}) \cup {[t EXCEPT !.pc = "wait"]}
                 /\ semaphores' = [semaphores EXCEPT ![t.sem] = @ - 1]
                 /\ UNCHANGED on_demand_kill_threads
    /\ UNCHANGED <<asg_tags, desired, asg_lc, launch_configs, activities,
                   config_vars, main_vars, call_vars, bid_advisor>>

\* run_or_die entering the with block without taking a slot of the semaphore.
Admit_without_acquire(t) ==
    /\ t.pc = "blocked"
    /\ main_pc \notin {"init", "dead"}
    /\ semaphores[t.sem] > 0
    /\ \E outcome \in CordonOutcomes, fails \in FailChoices :
        LET instance == describe_instance(t.instance)
            res == no_retry(fails)
            terminate_call ==
                [call("run_or_die", "terminate_instance_in_auto_scaling_group",
                      t.instance, res)
                 EXCEPT !.ShouldDecrementDesiredCapacity = "False"]
            cordon == cordon_calls(outcome, t.instance)
        IN  IF run_or_die_aborts(t.mm_tag, is_spot([InstanceLifecycle |-> ec2[t.instance].InstanceLifecycle]), t.bid_type)
            THEN /\ Finish(t, semaphores)
                 /\ calls' = <<>>
                 /\ UNCHANGED ec2
            ELSE IF ~cordon_node(outcome)
            THEN /\ Finish(t, semaphores)
                 /\ calls' = cordon
                 /\ UNCHANGED ec2
            ELSE IF ~res.ok
            THEN /\ Finish(t, semaphores)
                 /\ calls' = Append(cordon, terminate_call)
                 /\ UNCHANGED ec2
            ELSE /\ calls' = Append(cordon, terminate_call)
                 /\ ec2' = [ec2 EXCEPT ![t.instance].State = "terminated"]
                 /\ threads' = (threads \ {t}) \cup {[t EXCEPT !.pc = "wait"]}
                 /\ UNCHANGED semaphores
                 /\ UNCHANGED on_demand_kill_threads
    /\ UNCHANGED <<asg_tags, desired, asg_lc, launch_configs, activities,
                   config_vars, main_vars, call_vars, bid_advisor>>

\* The thread acquires the semaphore; lines 499-526.
Admit(t) ==
    /\ t.pc = "blocked"
    /\ main_pc \notin {"init", "dead"}
    /\ semaphores[t.sem] > 0
    /\ \E outcome \in CordonOutcomes, fails \in FailChoices :
        LET instance == describe_instance(t.instance)
            res == no_retry(fails)
            terminate_call ==
                [call("run_or_die", "terminate_instance_in_auto_scaling_group",
                      t.instance, res)
                 EXCEPT !.ShouldDecrementDesiredCapacity = "False"]
            cordon == cordon_calls(outcome, t.instance)
        IN  IF run_or_die_aborts(t.mm_tag, is_spot([InstanceLifecycle |-> ec2[t.instance].InstanceLifecycle]), t.bid_type)
            THEN /\ Finish(t, semaphores)
                 /\ calls' = <<>>
                 /\ UNCHANGED ec2
            ELSE IF ~cordon_node(outcome)
            THEN /\ Finish(t, semaphores)
                 /\ calls' = cordon
                 /\ UNCHANGED ec2
            ELSE IF ~res.ok
            THEN /\ Finish(t, semaphores)
                 /\ calls' = Append(cordon, terminate_call)
                 /\ UNCHANGED ec2
            ELSE /\ calls' = Append(cordon, terminate_call)
                 /\ ec2' = [ec2 EXCEPT ![t.instance].State = "terminated"]
                 /\ threads' = (threads \ {t}) \cup {[t EXCEPT !.pc = "wait"]}
                 /\ semaphores' = [semaphores EXCEPT ![t.sem] = @ - 1]
                 /\ UNCHANGED on_demand_kill_threads
    /\ UNCHANGED <<asg_tags, desired, asg_lc, launch_configs, activities,
                   config_vars, main_vars, call_vars, bid_advisor>>

\* wait_for_all_running: the poll that ends the wait, because every instance
\* of the group is healthy or because the describe call raises.
Poll(t) ==
    /\ t.pc = "wait"
    /\ main_pc \notin {"init", "dead"}
    /\ \E fails \in FailChoices :
        /\ \/ ~no_retry(fails).ok
           \/ describe_asg(t.asg).Instances = describe_asg(t.asg).DesiredCapacity
        /\ Finish(t, [semaphores EXCEPT ![t.sem] = @ + 1])
        /\ calls' = IF no_retry(fails).ok THEN <<>>
                     ELSE <<call("wait_for_all_running", "describe_auto_scaling_groups",
                                 t.asg, no_retry(fails))>>
    /\ UNCHANGED <<provider_vars, config_vars, main_vars, call_vars, bid_advisor>>

(***************************************************************************)
(* The provider.                                                           *)
(***************************************************************************)
\* The autoscaler launches an instance from the group's launch configuration.
Launch(g) ==
    /\ main_pc \notin {"init", "dead"}
    /\ Cardinality(asg_instances(g)) < desired[g]
    /\ \E i \in Instances :
        /\ ec2[i].State = "unborn"
        /\ \A j \in Instances : ec2[j].State = "unborn" => i <= j
        /\ ec2' = [ec2 EXCEPT ![i] =
                     [asg |-> g,
                      InstanceLifecycle |->
                          IF launch_configs[asg_lc[g]] # "none" THEN "spot" ELSE "absent",
                      State |-> "running"]]
    /\ calls' = <<>>
    /\ UNCHANGED <<asg_tags, desired, asg_lc, launch_configs, activities,
                   config_vars, main_vars, thread_vars, call_vars, bid_advisor>>

ActivityChoices ==
    {<<>>, <<[Progress |-> 20, StatusMessage |-> InsufficientCapacityStatus]>>}

\* A scaling activity of the group starts or completes while the agent sleeps
\* between two passes.
ChangeActivities(g) ==
    /\ main_pc = "sleep"
    /\ asg_tags[g].cluster
    /\ \E a \in ActivityChoices :
        /\ a # activities[g]
        /\ activities' = [activities EXCEPT ![g] = a]
    /\ calls' = <<>>
    /\ UNCHANGED <<asg_tags, desired, asg_lc, launch_configs, ec2,
                   config_vars, main_vars, thread_vars, call_vars, bid_advisor>>

(***************************************************************************)
(* The specification.                                                      *)
(***************************************************************************)
\* The deployments the model starts from: the agent's flags, the tags and the
\* desired capacity of the managed group g1, how many of its instances run
\* and which of them are spot, and the SpotPrice of its launch configuration.
Scenario(eo, pct, mm, nt, d, n, spot, price) ==
    [events_only |-> eo, terminate_percentage |-> pct, mm |-> mm, not_terminate |-> nt,
     desired |-> d, running |-> n, spot |-> spot, SpotPrice |-> price]

EventsOnlyScenarios ==
    {Scenario(TRUE, 60, mm, FALSE, 2, 2, spot, price) :
        mm \in {"use-spot", "no-spot"}, spot \in {{}, {1}}, price \in {"none", "0.100"}}

NotTerminateScenarios ==
    {Scenario(FALSE, 60, mm, TRUE, 2, 2, {1}, price) :
        mm \in MMTagValues, price \in {"none", "0.100"}}

RotationScenarios ==
    {Scenario(FALSE, 60, "use-spot", FALSE, 2, 2, {}, "none"),
     Scenario(FALSE, 100, "use-spot", FALSE, 2, 2, {}, "none"),
     Scenario(FALSE, 60, "use-spot", FALSE, 2, 1, {}, "none"),
     Scenario(FALSE, 60, "use-spot", FALSE, 1, 1, {}, "0.100"),
     Scenario(FALSE, 100, "use-spot", FALSE, 2, 2, {1}, "0.100"),
     Scenario(FALSE, 60, "no-spot", FALSE, 2, 2, {1}, "0.100"),
     Scenario(FALSE, 60, "abcd", FALSE, 1, 1, {1}, "none"),
     Scenario(FALSE, 60, "abcd", FALSE, 1, 1, {}, "none")}

Scenarios == EventsOnlyScenarios \cup NotTerminateScenarios \cup RotationScenarios

\* The state after AWSMinionManager.__init__: nothing discovered, no thread.
InitAgent(sc) ==
    /\ events_only = sc.events_only
    /\ terminate_percentage = sc.terminate_percentage
    /\ asg_metas = <<>>
    /\ on_demand_kill_threads = {}
    /\ threads = {}
    /\ semaphores = [s \in SemIds |-> 0]
    /\ main_pc = "init"
    /\ idx = 0
    /\ attempts_to_converge = 0
    /\ calls = <<>>
    /\ bid_advisor = AWSBidAdvisor

\* The account: g1 carries the cluster tag and the tags of the scenario, g2
\* belongs to no cluster; each group has its launch configuration, and the
\* first instances of the pool run in g1.
InitProvider(sc) ==
    /\ asg_tags = [g \in Groups |->
                     IF g = "g1"
                     THEN [cluster |-> TRUE, mm |-> sc.mm, not_terminate |-> sc.not_terminate]
                     ELSE [cluster |-> FALSE, mm |-> "absent", not_terminate |-> FALSE]]
    /\ desired = [g \in Groups |-> IF g = "g1" THEN sc.desired ELSE 0]
    /\ asg_lc = [g \in Groups |-> <<LCBase[g], 0>>]
    /\ launch_configs = [n \in LCNames |->
                            IF n = <<"lc1", 0>> THEN sc.SpotPrice
                            ELSE IF n = <<"lc2", 0>> THEN "none" ELSE "absent"]
    /\ activities = [g \in Groups |-> <<>>]
    /\ ec2 = [i \in Instances |->
                 IF i <= sc.running
                 THEN [asg |-> "g1",
                       InstanceLifecycle |-> IF i \in sc.spot THEN "spot" ELSE "absent",
                       State |-> "running"]
                 ELSE [asg |-> "none", InstanceLifecycle |-> "absent", State |-> "unborn"]]

Init ==
    /\ \E sc \in Scenarios : InitAgent(sc) /\ InitProvider(sc)
    /\ args = <<>>
    /\ result = <<>>

Next ==
    \/ Run
    \/ Rediscover
    \/ ProcessGroup
    \/ Converge
    \/ \E t \in threads : TimerFire(t)
    \/ \E t \in threads : Admit(t)
    \/ \E t \in threads : Poll(t)
    \/ \E g \in Groups : Launch(g)
    \/ \E g \in Groups : ChangeActivities(g)

Spec == Init /\ [][Next]_vars

(***************************************************************************)
(* update_needed applied on its own: to every tag value, bid, outcome of   *)
(* the advisor query and course of the convergence check.                  *)
(***************************************************************************)
\* What one describe call of the convergence check may show.
Observations == {[DesiredCapacity |-> 2, Instances |-> n] : n \in 1..2}

\* The arguments: the group's tag and bid, whether the advisor query raises,
\* what the three describe calls would show, and which of them raises (0: none).
UpdateNeededArgs ==
    [mm : MMTagValues,
     bid_info : {[type |-> "on-demand", price |-> ""],
                 [type |-> "spot", price |-> "0.10"],
                 [type |-> "spot", price |-> "0.100"]},
     advisor_raises : BOOLEAN,
     observations : [1..stop_max_attempt_number -> Observations],
     describe_fails_at : 0..stop_max_attempt_number]

\* The describe call that raises is reached: no earlier observation converged.
describe_raises(a) ==
    /\ a.describe_fails_at > 0
    /\ ~check_scaling_group_instances(SubSeq(a.observations, 1, a.describe_fails_at - 1))

policy_tag(a) == get_mm_tag(set_asg_info([cluster |-> TRUE, mm |-> a.mm, not_terminate |-> FALSE]))

UpdateNeededCall ==
    /\ result = <<>>
    /\ result' = <<update_needed(policy_tag(args), args.bid_info, args.advisor_raises,
                                 check_scaling_group_instances(args.observations),
                                 describe_raises(args))>>
    /\ UNCHANGED <<provider_vars, config_vars, main_vars, thread_vars, calls, args, bid_advisor>>

InitUpdateNeeded ==
    /\ InitAgent(Scenario(FALSE, 60, "use-spot", FALSE, 1, 1, {}, "none"))
    /\ InitProvider(Scenario(FALSE, 60, "use-spot", FALSE, 1, 1, {}, "none"))
    /\ args \in UpdateNeededArgs
    /\ result = <<>>

SpecUpdateNeeded == InitUpdateNeeded /\ [][UpdateNeededCall]_vars

(***************************************************************************)
(* The properties.                                                         *)
(***************************************************************************)
\* The main thread finishes with the group at idx in this step.
GroupDone ==
    /\ main_pc \in {"pass", "converge"}
    /\ main_pc' = "sleep" \/ (main_pc' = "pass" /\ idx' = idx + 1)

\* The main thread ends a pass in this step.
PassEnd == main_pc \in {"pass", "converge"} /\ main_pc' = "sleep"

\* No call of the step recorded in cs raised.
NoException(cs) == \A k \in 1..Len(cs) : cs[k].result # "error"

\* C1 as stated: without --events-only, at the end of every pass every group's
\* bid is spot only if its tag is use-spot and the insufficient-capacity
\* diagnostic is clean, and on-demand in every other case.
C1_SpotOnlyIfUseSpotAndCapacity ==
    [][(~events_only /\ PassEnd) =>
        \A k \in 1..Len(asg_metas') :
            LET m == asg_metas'[k]
                allowed == /\ get_mm_tag(m.asg_info) = "use-spot"
                           /\ ~check_insufficient_capacity(activities'[m.name], NoSpotRequests)
            IN  /\ m.bid_info.type = "spot" => allowed
                /\ ~allowed => m.bid_info.type = "on-demand"]_vars

\* C1 amended: without --events-only, when the handling of a group ends and no
\* call made for it raised, the group's bid is spot only if its tag is
\* use-spot and either the diagnostic is clean or the bid was spot already and
\* the convergence check found the desired capacity met (the diagnostic is
\* then not consulted); with the tag no-spot the bid is on-demand.
C1_SpotOnlyIfUseSpotWhenHandled ==
    [][(~events_only /\ GroupDone /\ NoException(calls')) =>
        LET m == asg_metas'[idx]
            g == m.name
        IN  /\ m.bid_info.type = "spot" =>
                /\ get_mm_tag(m.asg_info) = "use-spot"
                /\ \/ ~check_insufficient_capacity(activities[g], NoSpotRequests)
                   \/ /\ asg_metas[idx].bid_info.type = "spot"
                      /\ observation_converged(describe_asg(g))
            /\ get_mm_tag(m.asg_info) = "no-spot" => m.bid_info.type = "on-demand"]_vars

\* A pass has just rewritten a use-spot group from on-demand to spot.
C1_Witness ==
    /\ ~events_only
    /\ main_pc = "sleep"
    /\ Len(asg_metas) = 1
    /\ asg_metas[1].bid_info.type = "spot"
    /\ Len(calls) = 3
    /\ calls[1].op = "create_launch_configuration"
    /\ calls[1].SpotPrice = "0.10"
    /\ NoException(calls)

\* C2: with events_only set, no step issues a create, update or delete of a
\* launch configuration or a termination, and no timer is ever registered.
C2_EventsOnlyChangesNothing ==
    events_only =>
        /\ \A k \in 1..Len(calls) : calls[k].op \notin MutatingOps
        /\ threads = {}
        /\ on_demand_kill_threads = {}

\* With events_only set, a pass has handled a use-spot group that is on
\* on-demand and has a running on-demand instance.
C2_Witness ==
    /\ events_only
    /\ main_pc = "sleep"
    /\ Len(asg_metas) = 1
    /\ get_mm_tag(asg_metas[1].asg_info) = "use-spot"
    /\ asg_metas[1].bid_info.type = "on-demand"
    /\ \E i \in asg_instances("g1") : ~is_spot(describe_instance(i))

\* The instances that have a termination task or an entry in the map.
Pending == on_demand_kill_threads \cup {t.instance : t \in threads}

\* C3: the handling of a group that carries the not-terminate tag registers no
\* timer and adds no entry to on_demand_kill_threads.
C3_NotTerminateRegistersNothing ==
    [][(main_pc = "pass" /\ not_terminate_instance(asg_metas[idx].asg_info)) =>
        Pending' \subseteq Pending]_vars

\* A pass has handled a not-terminate group, not in events-only mode, that has
\* a running instance whose lifecycle does not match the tag.
C3_Witness ==
    /\ ~events_only
    /\ main_pc = "sleep"
    /\ Len(asg_metas) = 1
    /\ not_terminate_instance(asg_metas[1].asg_info)
    /\ \E i \in asg_instances("g1") :
          is_spot(describe_instance(i)) = (get_mm_tag(asg_metas[1].asg_info) = "no-spot")
    /\ Pending = {}

\* The tasks of group g that hold a slot of a semaphore.
Active(g) == {t \in threads : t.asg = g /\ t.pc = "wait"}

\* C4: at any instant the tasks of a group that hold a slot are at most
\* round(desired * terminate_percentage / 100), at least 1; that is 2 for a
\* desired capacity of 3 at 60 percent.
C4_ActiveWithinSlots ==
    /\ \A g \in Groups :
          Cardinality(Active(g)) <= set_semaphore(desired[g], terminate_percentage)
    /\ set_semaphore(3, 60) = 2

\* C5: there is at most one termination task per instance id, and every task
\* has its entry in on_demand_kill_threads.
C5_OneTaskPerInstance ==
    /\ \A t1, t2 \in threads : t1.instance = t2.instance => t1 = t2
    /\ \A t \in threads : t.instance \in on_demand_kill_threads

\* Two scheduling calls have registered timers, and the instance of the
\* earlier one was still running and pending when the later call ran.
C5_Witness ==
    \E t1, t2 \in threads :
        /\ t1.sem # t2.sem
        /\ t1.pc \in {"timer", "blocked"}
        /\ t2.pc \in {"timer", "blocked"}
        /\ is_instance_running(describe_instance(t1.instance))
        /\ is_instance_running(describe_instance(t2.instance))

\* C6: a task that ends in a step, on whatever path, leaves no entry in
\* on_demand_kill_threads and has given back the slot it held.
C6_EveryExitCleansUp ==
    [][\A t \in threads :
          (\A u \in threads' : u.instance # t.instance) =>
              /\ t.instance \notin on_demand_kill_threads'
              /\ (t.pc = "wait" /\ \E u \in threads' : u.sem = t.sem) =>
                    semaphores'[t.sem] = semaphores[t.sem] + 1]_vars

\* The termination call of a step for instance i, if any.
Terminates(cs, i) ==
    \E k \in 1..Len(cs) :
        /\ cs[k].op = "terminate_instance_in_auto_scaling_group"
        /\ cs[k].target = i

\* The cases in which the task t may terminate its instance.
MayTerminate(t) ==
    \/ t.mm_tag = "no-spot" /\ is_spot(describe_instance(t.instance))
    \/ /\ t.mm_tag = "use-spot"
       /\ ~is_spot(describe_instance(t.instance))
       /\ t.bid_type = "spot"

\* C7: a task that runs its guards calls terminate only for a spot instance
\* under no-spot, or for an on-demand instance under use-spot when the
\* advisor's answer to the task was spot; otherwise it issues no call and the
\* instance stays as it is.  Every termination call passes
\* ShouldDecrementDesiredCapacity=False.
C7_TerminateOnlyOnMismatch ==
    [][/\ \A t \in threads :
            (t.pc = "blocked" /\ t \notin threads') =>
                \/ MayTerminate(t)
                \/ /\ ~Terminates(calls', t.instance)
                   /\ ec2'[t.instance] = ec2[t.instance]
       /\ \A k \in 1..Len(calls') :
            calls'[k].op = "terminate_instance_in_auto_scaling_group" =>
                /\ calls'[k].ShouldDecrementDesiredCapacity = "False"
                /\ \E t \in threads :
                      t.instance = calls'[k].target /\ t.pc = "blocked" /\ MayTerminate(t)]_vars

\* An on-demand instance of a use-spot group has just been terminated by its
\* task, which now waits for the replacement.
C7_Witness ==
    \E t \in threads :
        /\ t.pc = "wait"
        /\ t.mm_tag = "use-spot"
        /\ t.bid_type = "spot"
        /\ ec2[t.instance].State = "terminated"
        /\ Terminates(calls, t.instance)

\* C8: when the drain of an instance's node fails and the uncordon that
\* follows succeeds, the step calls no termination for the instance and the
\* instance stays as it is.
C8_UncordonedIsNotTerminated ==
    [][\A i \in Instances :
          (\E j, k \in 1..Len(calls') :
              /\ j < k
              /\ calls'[j].op = "kubectl drain"
              /\ calls'[j].target = i
              /\ calls'[j].result = "error"
              /\ calls'[k].op = "kubectl uncordon"
              /\ calls'[k].target = i
              /\ calls'[k].result = "ok") =>
              /\ ~Terminates(calls', i)
              /\ ec2'[i] = ec2[i]]_vars

\* populate_instances or set_semaphore raised in the step recorded in cs.
ScheduleRaised(cs) ==
    \E k \in 1..Len(cs) :
        /\ cs[k].result = "error"
        /\ cs[k].caller \in {"populate_instances", "set_semaphore"}

\* The running instances of group g without a pending termination whose
\* lifecycle does not match the policy tag.
Mismatching(g, tag) ==
    {i \in asg_instances(g) :
        /\ i \notin on_demand_kill_threads
        /\ \/ tag = "use-spot" /\ ~is_spot(describe_instance(i))
           \/ tag = "no-spot" /\ is_spot(describe_instance(i))}

UpdateCase(a) ==
    \/ policy_tag(a) = "no-spot" /\ a.bid_info.type = "spot"
    \/ policy_tag(a) = "use-spot" /\ a.bid_info.type = "on-demand"
    \/ /\ policy_tag(a) = "use-spot"
       /\ a.bid_info.type = "spot"
       /\ ~check_scaling_group_instances(a.observations)

\* A call made by update_needed for the arguments a raises: the advisor query
\* for a bid without price, or a describe call of the convergence check.
RaisesInside(a) ==
    \/ a.bid_info.price = "" /\ a.advisor_raises
    \/ /\ policy_tag(a) = "use-spot"
       /\ a.bid_info.type = "spot"
       /\ describe_raises(a)

\* C10 as stated: update_needed returns true iff the tag is no-spot and the
\* bid is spot, or the tag is use-spot and the bid on-demand, or the tag is
\* use-spot, the bid spot and the convergence check fails.
C10_TrueIffCase ==
    result # <<>> => (result[1] <=> UpdateCase(args))

\* C10 amended: update_needed returns true iff no call it makes raises and one
\* of the three cases holds; when the advisor query or a describe call raises
\* it returns false.
C10_TrueIffCaseAndNoException ==
    result # <<>> => (result[1] <=> (UpdateCase(args) /\ ~RaisesInside(args)))

\* update_needed has returned false for a use-spot group on on-demand whose
\* advisor query raised.
C10_Witness ==
    /\ result = <<FALSE>>
    /\ policy_tag(args) = "use-spot"
    /\ args.bid_info.type = "on-demand"
    /\ args.advisor_raises

(***************************************************************************)
(* are_bids_equal applied on its own, to every pair of bids.               *)
(***************************************************************************)
\* The bids: an on-demand bid may lack the "price" key or hold any string in
\* it; a spot bid holds a price string.
Bids ==
    {[type |-> "on-demand"]}
    \cup [type : {"on-demand"}, price : {"", "100"}]
    \cup [type : {"spot"}, price : {"", "90", "100", "0.10", "0.100"}]

AreBidsEqualCall ==
    /\ result = <<>>
    /\ result' = <<are_bids_equal(args[1], args[2])>>
    /\ UNCHANGED <<provider_vars, config_vars, main_vars, thread_vars, calls, args, bid_advisor>>

InitAreBidsEqual ==
    /\ InitAgent(Scenario(FALSE, 60, "use-spot", FALSE, 1, 1, {}, "none"))
    /\ InitProvider(Scenario(FALSE, 60, "use-spot", FALSE, 1, 1, {}, "none"))
    /\ args \in Bids \X Bids
    /\ result = <<>>

SpecAreBidsEqual == InitAreBidsEqual /\ [][AreBidsEqualCall]_vars

\* C11: are_bids_equal is reflexive and symmetric; it is true for two
\* on-demand bids whatever their price fields hold, a missing one included,
\* true for two spot bids iff their price strings are equal, and false when
\* the types differ.
C11_BidEquality ==
    result # <<>> =>
        LET a == args[1]
            b == args[2]
        IN  /\ are_bids_equal(a, a)
            /\ result[1] = are_bids_equal(b, a)
            /\ (a.type = "on-demand" /\ b.type = "on-demand") => result[1]
            /\ (a.type = "spot" /\ b.type = "spot") => (result[1] <=> a.price = b.price)
            /\ a.type # b.type => ~result[1]

\* are_bids_equal has returned false for two spot bids whose price strings
\* differ and denote the same number.
C11_Witness ==
    /\ result = <<FALSE>>
    /\ Len(args) = 2
    /\ args[1] = [type |-> "spot", price |-> "0.10"]
    /\ args[2] = [type |-> "spot", price |-> "0.100"]

(***************************************************************************)
(* update_scaling_group applied on its own to one group, again and again,  *)
(* with the rediscovery that minion_manager_work runs between two passes.  *)
(***************************************************************************)
\* The most launch configurations the group is pointed at in a behaviour.
MaxRewrites == 3

\* The bids update_scaling_group is called with.
NewBids == {create_on_demand_bid_info, [type |-> "spot", price |-> "0.10"]}

\* The calls of update_scaling_group that may lose all their attempts.
RewriteFailPoints == {"none", "create", "update", "delete"}

\* The group g1 is managed and points at a launch configuration whose name
\* ends in any number of "-0"; a launch configuration of the name the first
\* rewrite will choose may exist already.  The group has been discovered.
InitRewrite ==
    /\ InitAgent(Scenario(FALSE, 60, "use-spot", FALSE, 1, 1, {}, "none"))
    /\ \E z \in 0..MaxSuffixes, price \in {"none", "0.10"}, other \in {"absent", "none"} :
        /\ asg_lc = [g \in Groups |-> IF g = "g1" THEN <<LCBase[g], z>> ELSE <<LCBase[g], 0>>]
        /\ launch_configs =
              [n \in LCNames |->
                  IF n = <<"lc1", z>> THEN price
                  ELSE IF n = <<"lc2", 0>> THEN "none"
                  ELSE IF n = new_lc_name(<<"lc1", z>>) THEN other
                  ELSE "absent"]
        /\ args = <<<<"lc1", z>>>>
    /\ asg_tags = [g \in Groups |->
                     IF g = "g1"
                     THEN [cluster |-> TRUE, mm |-> "use-spot", not_terminate |-> FALSE]
                     ELSE [cluster |-> FALSE, mm |-> "absent", not_terminate |-> FALSE]]
    /\ desired = [g \in Groups |-> 0]
    /\ activities = [g \in Groups |-> <<>>]
    /\ ec2 = [i \in Instances |->
                 [asg |-> "none", InstanceLifecycle |-> "absent", State |-> "unborn"]]
    /\ result = <<>>

\* One call of update_scaling_group for g1.  `result' lists the launch
\* configurations the group has been pointed at, in order.
UpdateScalingGroupCall ==
    /\ asg_metas # <<>>
    /\ Len(result) < MaxRewrites
    /\ \E new_bid_info \in NewBids, fail \in RewriteFailPoints :
        LET res == update_scaling_group(asg_metas[1], new_bid_info, events_only,
                                        launch_configs, asg_lc["g1"], fail)
        IN  /\ asg_metas' = <<res.asg_meta>>
            /\ launch_configs' = res.lcs
            /\ asg_lc' = [asg_lc EXCEPT !["g1"] = res.pointer]
            /\ calls' = res.calls
            /\ result' = IF res.pointer # asg_lc["g1"]
                         THEN Append(result, res.pointer) ELSE result
    /\ UNCHANGED <<asg_tags, desired, ec2, activities, config_vars, thread_vars,
                   main_pc, idx, attempts_to_converge, args, bid_advisor>>

\* discover_asgs and populate_current_config, at the start of run() and at the
\* end of every pass.
PopulateCurrentConfig ==
    /\ asg_metas' = discover_asgs
    /\ asg_metas' # asg_metas
    /\ calls' = <<>>
    /\ UNCHANGED <<provider_vars, config_vars, thread_vars,
                   main_pc, idx, attempts_to_converge, call_vars, bid_advisor>>

NextRewrite == UpdateScalingGroupCall \/ PopulateCurrentConfig

SpecRewrite == InitRewrite /\ [][NextRewrite]_vars

\* C12: the name a rewrite chooses differs from the name it replaces, two
\* rewrites return to the original name, and the group is never pointed at a
\* third name.
C12_ToggleIsInvolution ==
    /\ Len(result) >= 1 => result[1] # args[1]
    /\ \A k \in 2..Len(result) : result[k] # result[k - 1]
    /\ Len(result) >= 2 => result[2] = args[1]
    /\ \A k \in 1..Len(result) : result[k] \in {args[1], result[1]}

\* The step is a call of update_scaling_group that got as far as the create.
RewriteStep ==
    /\ asg_metas # <<>>
    /\ calls' # <<>>
    /\ calls'[1].op = "create_launch_configuration"

\* The rewrite of the step is complete: the new launch configuration exists,
\* the group points at it, the old one is deleted, and the record carries the
\* new name and the new bid.
RewriteComplete ==
    LET old == asg_metas[1].lc_info.LaunchConfigurationName
        new == new_lc_name(old)
    IN  /\ launch_configs'[new] # "absent"
        /\ asg_lc'["g1"] = new
        /\ launch_configs'[old] = "absent"
        /\ asg_metas'[1].lc_info.LaunchConfigurationName = new
        /\ (asg_metas'[1].bid_info.type = "spot") = (calls'[1].SpotPrice # "none")

\* The group is as it was: it points at the same launch configuration, which
\* exists, and the record is unchanged.
RewritePrior ==
    /\ asg_lc' = asg_lc
    /\ launch_configs'[asg_lc'["g1"]] # "absent"
    /\ asg_metas' = asg_metas

\* The delete of the step failed: the group points at the new launch
\* configuration, the old one is still there and the record is unchanged.
RewriteOrphan ==
    LET old == asg_metas[1].lc_info.LaunchConfigurationName
        new == new_lc_name(old)
    IN  /\ Len(calls') = 3
        /\ calls'[3].op = "delete_launch_configuration"
        /\ calls'[3].result = "error"
        /\ launch_configs'[new] # "absent"
        /\ asg_lc'["g1"] = new
        /\ launch_configs'[old] # "absent"
        /\ asg_metas' = asg_metas

\* C13 as stated: whatever call of update_scaling_group fails, the rewrite is
\* either complete or the group is in its prior state.
C13_AllOrNothing ==
    [][RewriteStep => (RewriteComplete \/ RewritePrior)]_vars

\* C13 amended: the rewrite is complete, or the group is in its prior state,
\* or, when the delete fails after its retries, the group points at the new
\* launch configuration and the old one is left behind with the record
\* unchanged.
C13_AllOrNothingOrOrphan ==
    [][RewriteStep => (RewriteComplete \/ RewritePrior \/ RewriteOrphan)]_vars

\* A rewrite has failed in its delete call.
C13_Witness ==
    /\ asg_metas # <<>>
    /\ Len(calls) = 3
    /\ calls[3].op = "delete_launch_configuration"
    /\ calls[3].result = "error"
    /\ asg_lc["g1"] # asg_metas[1].lc_info.LaunchConfigurationName

\* C14: when a launch configuration of the new name exists already, the
\* create raises nothing and is tried once, and the group is repointed and the
\* old launch configuration deleted; any other error of the create ends
\* update_scaling_group after the retries and the group is not repointed.
C14_AlreadyExistsIsSuccess ==
    [][RewriteStep =>
        LET new == new_lc_name(asg_metas[1].lc_info.LaunchConfigurationName)
        IN  /\ launch_configs[new] # "absent" =>
                /\ calls'[1].result # "error"
                /\ calls'[1].attempts = 1
                /\ Len(calls') >= 2
                /\ calls'[2].op = "update_auto_scaling_group"
                /\ calls'[2].result = "ok" =>
                      /\ asg_lc'["g1"] = new
                      /\ Len(calls') = 3
                      /\ calls'[3].op = "delete_launch_configuration"
            /\ calls'[1].result = "error" =>
                /\ launch_configs[new] = "absent"
                /\ calls'[1].attempts = stop_max_attempt_number
                /\ Len(calls') = 1
                /\ asg_lc' = asg_lc
                /\ asg_metas' = asg_metas]_vars

\* A rewrite whose create met an existing launch configuration has repointed
\* the group at it and deleted the old one.
C14_Witness ==
    /\ asg_metas # <<>>
    /\ Len(calls) = 3
    /\ calls[1].op = "create_launch_configuration"
    /\ calls[1].result = "AlreadyExists"
    /\ calls[3].result = "ok"
    /\ asg_lc["g1"] = asg_metas[1].lc_info.LaunchConfigurationName

(***************************************************************************)
(* get_new_bid applied on its own, to price tables of every shape.         *)
(***************************************************************************)
\* The longest spot price list of the inputs.
MaxSpotEntries == 2

\* On-demand tables: empty, one that lacks the instance type asked for, and
\* one that has it at one of three prices.
OnDemandTables ==
    {<<>>, [t \in {"m3.large"} |-> "0.10"]}
    \cup {[t \in {InstanceType} |-> p] : p \in {"0.10", "0.12", "100"}}

SpotEntries ==
    [InstanceType : {InstanceType, "m3.large"},
     SpotPrice : {"0.05", "0.09", "0.10", "80", "85"},
     AvailabilityZone : {"us-west-2a", "us-west-2b"}]

SpotLists == UNION {[1..n -> SpotEntries] : n \in 0..MaxSpotEntries}

GetNewBidArgs ==
    [od : OnDemandTables, spots : SpotLists,
     zones : {{"us-west-2a"}, {"us-west-2a", "us-west-2b"}}]

GetNewBidCall ==
    /\ result = <<>>
    /\ result' = <<get_new_bid(args.od, args.spots, args.zones, InstanceType)>>
    /\ UNCHANGED <<provider_vars, config_vars, main_vars, thread_vars, calls, args, bid_advisor>>

InitGetNewBid ==
    /\ InitAgent(Scenario(FALSE, 60, "use-spot", FALSE, 1, 1, {}, "none"))
    /\ InitProvider(Scenario(FALSE, 60, "use-spot", FALSE, 1, 1, {}, "none"))
    /\ args \in GetNewBidArgs
    /\ result = <<>>

SpecGetNewBid == InitGetNewBid /\ [][GetNewBidCall]_vars

\* The spot entries of the arguments a for the instance type and a zone asked for.
MatchingSpots(a) ==
    {k \in 1..Len(a.spots) :
        /\ a.spots[k].InstanceType = InstanceType
        /\ a.spots[k].AvailabilityZone \in a.zones}

\* Spot is worth it: both tables hold data, the type has an on-demand price,
\* some spot entry matches and 1.2 times every matching spot price is below
\* the on-demand price.
SpotWorthIt(a) ==
    /\ DOMAIN a.od # {}
    /\ a.spots # <<>>
    /\ InstanceType \in DOMAIN a.od
    /\ MatchingSpots(a) # {}
    /\ \A k \in MatchingSpots(a) :
          float(a.spots[k].SpotPrice) * 12 < float(a.od[InstanceType]) * 10

\* C15: get_new_bid returns a spot bid priced at the on-demand price string
\* iff spot is worth it, and the on-demand bid in every other case, empty
\* tables included.
C15_SpotIffBelowMargin ==
    result # <<>> =>
        IF SpotWorthIt(args)
        THEN result[1] = [type |-> "spot", price |-> args.od[InstanceType]]
        ELSE result[1].type = "on-demand"

\* get_new_bid has returned the on-demand bid because 1.2 times the highest
\* of two matching spot prices equals the on-demand price.
C15_Witness ==
    /\ result = <<create_on_demand_bid_info>>
    /\ DOMAIN args = {"od", "spots", "zones"}
    /\ args.od = [t \in {InstanceType} |-> "0.12"]
    /\ Len(args.spots) = 2
    /\ MatchingSpots(args) = {1, 2}
    /\ args.spots[1].SpotPrice = "0.05"
    /\ args.spots[2].SpotPrice = "0.10"

(***************************************************************************)
(* The on-demand refresher: parse_price_row applied to a sequence of rows  *)
(* of the price catalog.                                                   *)
(***************************************************************************)
\* The most catalog rows parsed in a behaviour.
MaxRows == 2

\* The location name of the advisor's region.
RegionLocation == "US West (Oregon)"

\* A row that passes every filter.
GoodRow ==
    [TermType |-> "OnDemand", Tenancy |-> "Shared", PreInstalledSW |-> "NA",
     OperatingSystem |-> "Linux", Location |-> RegionLocation,
     RateCode |-> "JRTCKXETXF.6YS6EN2CT7"]

\* The row filters: GoodRow, and the rows that differ from it in one column.
RowFilters ==
    {GoodRow,
     [GoodRow EXCEPT !.TermType = "Reserved"],
     [GoodRow EXCEPT !.Tenancy = "Dedicated"],
     [GoodRow EXCEPT !.PreInstalledSW = "SQL Std"],
     [GoodRow EXCEPT !.OperatingSystem = "Windows"],
     [GoodRow EXCEPT !.Location = "US East (N. Virginia)"],
     [GoodRow EXCEPT !.RateCode = "Some Random RateCode"]}

\* The catalog rows: the columns of the filter, the price and the instance type.
PriceRows ==
    [filter : RowFilters, PricePerUnit : {"0.453", "0.658", "0.00"},
     InstanceType : {"m5.4xlarge", InstanceType}]

\* str.endswith(".6YS6EN2CT7") on the rate codes of the model.
ends_with_hourly_suffix(rate_code) == rate_code = "JRTCKXETXF.6YS6EN2CT7"

\* parse_price_row without the test that skips the price "0.00".
parse_price_row_accepting_zero(on_demand_price_dict, row) ==
    IF /\ row.filter.TermType = "OnDemand"
       /\ row.filter.Tenancy = "Shared"
       /\ row.filter.PreInstalledSW = "NA"
       /\ row.filter.OperatingSystem = "Linux"
       /\ row.filter.Location = RegionLocation
       /\ ends_with_hourly_suffix(row.filter.RateCode)
    THEN [t \in DOMAIN on_demand_price_dict \cup {row.InstanceType} |->
             IF t = row.InstanceType THEN row.PricePerUnit ELSE on_demand_price_dict[t]]
    ELSE on_demand_price_dict

\* parse_price_row: a row that passes the filters and is not priced "0.00"
\* sets the entry of its instance type; any other row changes nothing.
parse_price_row(on_demand_price_dict, row) ==
    IF /\ row.filter.TermType = "OnDemand"
       /\ row.filter.Tenancy = "Shared"
       /\ row.filter.PreInstalledSW = "NA"
       /\ row.filter.OperatingSystem = "Linux"
       /\ row.filter.Location = RegionLocation
       /\ ends_with_hourly_suffix(row.filter.RateCode)
       /\ row.PricePerUnit # "0.00"
    THEN [t \in DOMAIN on_demand_price_dict \cup {row.InstanceType} |->
             IF t = row.InstanceType THEN row.PricePerUnit ELSE on_demand_price_dict[t]]
    ELSE on_demand_price_dict

\* One row is parsed.  `args' lists the rows parsed so far and `result' holds
\* on_demand_price_dict.
ParsePriceRow ==
    /\ Len(args) < MaxRows
    /\ \E row \in PriceRows :
        /\ args' = Append(args, row)
        /\ result' = <<parse_price_row(result[1], row)>>
    /\ UNCHANGED <<provider_vars, config_vars, main_vars, thread_vars, calls, bid_advisor>>

\* The advisor after construction: on_demand_price_dict is empty.
InitParsePriceRow ==
    /\ InitAgent(Scenario(FALSE, 60, "use-spot", FALSE, 1, 1, {}, "none"))
    /\ InitProvider(Scenario(FALSE, 60, "use-spot", FALSE, 1, 1, {}, "none"))
    /\ args = <<>>
    /\ result = <<(<<>>)>>

SpecParsePriceRow == InitParsePriceRow /\ [][ParsePriceRow]_vars

\* The rows of type t among `rows' that pass every filter and are not priced
\* "0.00".
AcceptedRows(rows, t) ==
    {k \in 1..Len(rows) :
        /\ rows[k].InstanceType = t
        /\ rows[k].filter = GoodRow
        /\ rows[k].PricePerUnit # "0.00"}

\* C16: after any sequence of rows the table has an entry exactly for the
\* types with an accepted row, and it is the price of the last accepted row
\* of the type; a row priced "0.00" or with another rate code leaves the
\* table as it is.
C16_LastAcceptedRowWins ==
    LET table == result[1]
    IN  /\ \A t \in {"m5.4xlarge", InstanceType} :
              IF AcceptedRows(args, t) = {}
              THEN t \notin DOMAIN table
              ELSE /\ t \in DOMAIN table
                   /\ table[t] = args[Max(AcceptedRows(args, t))].PricePerUnit
        /\ \A t \in DOMAIN table : table[t] # "0.00"

\* A row priced "0.00" that passes every filter has been parsed after a row
\* of the same type priced "0.658", and the table still holds "0.658".
C16_Witness ==
    /\ Len(args) = 2
    /\ Len(result) = 1
    /\ args[1] = [filter |-> GoodRow, PricePerUnit |-> "0.658", InstanceType |-> "m5.4xlarge"]
    /\ args[2] = [filter |-> GoodRow, PricePerUnit |-> "0.00", InstanceType |-> "m5.4xlarge"]
    /\ result[1] = [t \in {"m5.4xlarge"} |-> "0.658"]

(***************************************************************************)
(* The life cycle of the bid advisor: run(), the two refresher threads and *)
(* shutdown().                                                             *)
(***************************************************************************)
\* The refresher threads that have not terminated.
live_refreshers(advisor) ==
    {r \in Refreshers : advisor.refreshers[r] \in {"refresh", "sleep"}}

\* shutdown() returning without waiting for the threads.
shutdown_without_join(advisor) == TRUE

\* shutdown() joins both threads: it returns once they have terminated.
shutdown_joined(advisor) == live_refreshers(advisor) = {}

\* The tables a refresh may fetch.
FetchedTables(r) ==
    IF r = "OnDemandUpdater"
    THEN {OnDemandTable, [t \in {InstanceType} |-> "0.12"]}
    ELSE {SpotTable("0.05"), SpotTable("0.09")}

\* run(): both refresher threads are created, registered and started.
BidAdvisorRun ==
    /\ bid_advisor.pc = "constructed"
    /\ bid_advisor' = [bid_advisor EXCEPT
                          !.pc = "running",
                          !.all_bid_advisor_threads = Refreshers,
                          !.refreshers = [r \in Refreshers |-> "refresh"]]
    /\ UNCHANGED <<provider_vars, config_vars, main_vars, thread_vars, calls, call_vars>>

\* A refresher at the top of its loop: it terminates when the stop signal is
\* set; otherwise it refreshes its table, or fails to and logs it, and goes to
\* sleep.
Refresh(r) ==
    /\ bid_advisor.refreshers[r] = "refresh"
    /\ IF bid_advisor.shutdown
       THEN bid_advisor' = [bid_advisor EXCEPT !.refreshers[r] = "done"]
       ELSE \E ok \in BOOLEAN, table \in FetchedTables(r) :
              bid_advisor' =
                  [bid_advisor EXCEPT
                      !.refreshers[r] = "sleep",
                      !.on_demand_price_dict =
                          IF ok /\ r = "OnDemandUpdater" THEN table ELSE @,
                      !.spot_price_list =
                          IF ok /\ r = "SpotInstancePriceUpdater" THEN table ELSE @]
    /\ UNCHANGED <<provider_vars, config_vars, main_vars, thread_vars, calls, call_vars>>

\* The sleep of a refresher ends: the interval has passed or the stop signal
\* woke it.
Wake(r) ==
    /\ bid_advisor.refreshers[r] = "sleep"
    /\ bid_advisor' = [bid_advisor EXCEPT !.refreshers[r] = "refresh"]
    /\ UNCHANGED <<provider_vars, config_vars, main_vars, thread_vars, calls, call_vars>>

\* shutdown() is called and sets the stop signal.
BidAdvisorShutdown ==
    /\ bid_advisor.pc = "running"
    /\ bid_advisor' = [bid_advisor EXCEPT !.pc = "shutting_down", !.shutdown = TRUE]
    /\ UNCHANGED <<provider_vars, config_vars, main_vars, thread_vars, calls, call_vars>>

\* shutdown() returns: the threads are joined and the list is emptied.
BidAdvisorShutdownReturn ==
    /\ bid_advisor.pc = "shutting_down"
    /\ shutdown_joined(bid_advisor)
    /\ bid_advisor' = [bid_advisor EXCEPT !.pc = "stopped", !.all_bid_advisor_threads = {}]
    /\ UNCHANGED <<provider_vars, config_vars, main_vars, thread_vars, calls, call_vars>>

InitBidAdvisor ==
    /\ InitAgent(Scenario(FALSE, 60, "use-spot", FALSE, 1, 1, {}, "none"))
    /\ InitProvider(Scenario(FALSE, 60, "use-spot", FALSE, 1, 1, {}, "none"))
    /\ args = <<>>
    /\ result = <<>>

NextBidAdvisor ==
    \/ BidAdvisorRun
    \/ \E r \in Refreshers : Refresh(r)
    \/ \E r \in Refreshers : Wake(r)
    \/ BidAdvisorShutdown
    \/ BidAdvisorShutdownReturn

SpecBidAdvisor == InitBidAdvisor /\ [][NextBidAdvisor]_vars

\* C17: before run() the advisor has no refresher thread; run() starts exactly
\* the on-demand and the spot refresher; once shutdown() has returned both
\* have terminated and no refresher thread is registered or live.
C17_Lifecycle ==
    /\ bid_advisor.pc = "constructed" =>
          /\ bid_advisor.all_bid_advisor_threads = {}
          /\ live_refreshers(bid_advisor) = {}
    /\ bid_advisor.pc = "running" =>
          /\ bid_advisor.all_bid_advisor_threads = Refreshers
          /\ Cardinality(bid_advisor.all_bid_advisor_threads) = 2
          /\ live_refreshers(bid_advisor) = Refreshers
    /\ bid_advisor.pc = "stopped" =>
          /\ bid_advisor.all_bid_advisor_threads = {}
          /\ live_refreshers(bid_advisor) = {}
          /\ \A r \in Refreshers : bid_advisor.refreshers[r] = "done"

\* shutdown() has returned after the spot refresher had fetched prices and
\* the on-demand refresher had not.
C17_Witness ==
    /\ bid_advisor.pc = "stopped"
    /\ bid_advisor.spot_price_list # <<>>
    /\ bid_advisor.on_demand_price_dict = <<>>

(***************************************************************************)
(* check_insufficient_capacity applied on its own, to the activities and   *)
(* the spot requests the provider may report.                              *)
(***************************************************************************)
\* The most scaling activities of a response.
MaxActivities == 2

\* The message of an activity that waits for the spot request `id'.
WaitingForSpotStatus(id) ==
    <<WAITING_SPOT_INSTANCE_MESSAGE[1], id, WAITING_SPOT_INSTANCE_MESSAGE[2]>>

\* Status messages: no sign of trouble, both literals of the capacity error,
\* one of them only, a wait for a spot request, and a wait whose request id
\* the regular expression does not match.
StatusMessages ==
    {<<"Launching a new EC2 instance">>,
     InsufficientCapacityStatus,
     <<INSUFFICIENT_CAPACITY_MESSAGE[1]>>,
     WaitingForSpotStatus("sir-")}
    \cup {WaitingForSpotStatus(id) : id \in SpotRequestIds}

\* Activities, complete or not, with or without a status message.
Activities ==
    [Progress : {20, 100}] \cup [Progress : {20, 100}, StatusMessage : StatusMessages]

SpotRequest(code) == [State |-> "open", Status |-> [Code |-> code]]

\* What describe_spot_instance_requests may return for one id.
SpotRequestResponses ==
    {<<>>,
     <<[State |-> "open"]>>,
     <<SpotRequest("fulfilled")>>,
     <<SpotRequest("capacity-oversubscribed")>>,
     <<SpotRequest("capacity-not-available")>>,
     <<SpotRequest("pending-evaluation"), SpotRequest("capacity-not-available")>>}

CheckInsufficientCapacityArgs ==
    [activities : UNION {[1..n -> Activities] : n \in 0..MaxActivities},
     spot_requests : [SpotRequestIds -> SpotRequestResponses]]

CheckInsufficientCapacityCall ==
    /\ result = <<>>
    /\ result' = <<check_insufficient_capacity(args.activities, args.spot_requests)>>
    /\ UNCHANGED <<provider_vars, config_vars, main_vars, thread_vars, calls, args, bid_advisor>>

InitCheckInsufficientCapacity ==
    /\ InitAgent(Scenario(FALSE, 60, "use-spot", FALSE, 1, 1, {}, "none"))
    /\ InitProvider(Scenario(FALSE, 60, "use-spot", FALSE, 1, 1, {}, "none"))
    /\ args \in CheckInsufficientCapacityArgs
    /\ result = <<>>

SpecCheckInsufficientCapacity ==
    InitCheckInsufficientCapacity /\ [][CheckInsufficientCapacityCall]_vars

\* The activity is incomplete and its message holds both literals of the
\* capacity error.
SignalsInsufficientCapacity(activity) ==
    /\ activity.Progress < 100
    /\ "StatusMessage" \in DOMAIN activity
    /\ contains(activity.StatusMessage, "We currently do not have sufficient")
    /\ contains(activity.StatusMessage, "capacity in the Availability Zone you requested")

\* C18: check_insufficient_capacity returns true when some incomplete activity
\* has a status message with both literals of the capacity error; completed
\* activities never make it return true, whatever their message, and neither
\* do incomplete activities without a status message.
C18_OnlyIncompleteActivitiesSignal ==
    result # <<>> =>
        LET acts == args.activities
            incomplete == SelectSeq(acts, LAMBDA a : a.Progress # 100)
        IN  /\ (\E k \in 1..Len(acts) : SignalsInsufficientCapacity(acts[k])) => result[1]
            /\ result[1] =>
                  \E k \in 1..Len(acts) :
                      acts[k].Progress < 100 /\ "StatusMessage" \in DOMAIN acts[k]
            /\ result[1] = check_insufficient_capacity(incomplete, args.spot_requests)

\* check_insufficient_capacity has returned false for a completed activity
\* that carries the capacity error and an incomplete one without message.
C18_Witness ==
    /\ result = <<FALSE>>
    /\ DOMAIN args = {"activities", "spot_requests"}
    /\ Len(args.activities) = 2
    /\ args.activities[1] = [Progress |-> 100, StatusMessage |-> InsufficientCapacityStatus]
    /\ args.activities[2] = [Progress |-> 20]

\* The spot request id of an incomplete activity whose message is the wait
\* for a spot request.
WaitsForSpotRequest(activity, id) ==
    /\ activity.Progress < 100
    /\ "StatusMessage" \in DOMAIN activity
    /\ activity.StatusMessage = WaitingForSpotStatus(id)

\* Some request of the response carries one of the two capacity codes.
OutOfSpotCapacity(requests) ==
    \E k \in 1..Len(requests) :
        /\ "Status" \in DOMAIN requests[k]
        /\ requests[k].Status.Code \in {"capacity-oversubscribed", "capacity-not-available"}

\* C19: when no activity signals the capacity error itself,
\* check_insufficient_capacity returns true iff some incomplete activity waits
\* for a spot request and a request returned for its id has the status code
\* capacity-oversubscribed or capacity-not-available.
C19_SpotRequestCodes ==
    (/\ result # <<>>
     /\ \A k \in 1..Len(args.activities) : ~SignalsInsufficientCapacity(args.activities[k])) =>
        (result[1] <=>
            \E k \in 1..Len(args.activities), id \in SpotRequestIds :
                /\ WaitsForSpotRequest(args.activities[k], id)
                /\ OutOfSpotCapacity(args.spot_requests[id]))

\* check_insufficient_capacity has returned true for an activity that waits
\* for a spot request whose status code is capacity-not-available, the other
\* request being fulfilled.
C19_Witness ==
    /\ result = <<TRUE>>
    /\ DOMAIN args = {"activities", "spot_requests"}
    /\ Len(args.activities) = 1
    /\ WaitsForSpotRequest(args.activities[1], "sir-abc1")
    /\ args.spot_requests["sir-abc1"] = <<SpotRequest("capacity-not-available")>>
    /\ args.spot_requests["sir-xyz2"] = <<SpotRequest("fulfilled")>>

(***************************************************************************)
(* set_semaphore applied on its own, to every desired capacity and         *)
(* terminate_percentage.                                                   *)
(***************************************************************************)
\* The largest desired capacity of the inputs.
MaxDesired == 5

\* The values of terminate_percentage: those of a percentage, and some below
\* and above.
Percentages == (-2..102) \cup {150, 1000}

SetSemaphoreArgs == [desired : 1..MaxDesired, percentage : Percentages]

SetSemaphoreCall ==
    /\ result = <<>>
    /\ result' = <<set_semaphore(args.desired, args.percentage)>>
    /\ UNCHANGED <<provider_vars, config_vars, main_vars, thread_vars, calls, args, bid_advisor>>

InitSetSemaphore ==
    /\ InitAgent(Scenario(FALSE, 60, "use-spot", FALSE, 1, 1, {}, "none"))
    /\ InitProvider(Scenario(FALSE, 60, "use-spot", FALSE, 1, 1, {}, "none"))
    /\ args \in SetSemaphoreArgs
    /\ result = <<>>

SpecSetSemaphore == InitSetSemaphore /\ [][SetSemaphoreCall]_vars

\* The percentage brought into [1, 100].
Clamped(p) == IF p > 100 THEN 100 ELSE IF p <= 0 THEN 1 ELSE p

\* v is an integer nearest to d * p / 100.
Rounds(v, d, p) == 100 * v - d * p <= 50 /\ d * p - 100 * v <= 50

\* C20: the semaphore's initial value is desired * p' / 100 rounded to the
\* nearest integer, p' being the percentage clamped into [1, 100], or 1 when
\* that rounds to 0; it lies between 1 and the desired capacity; for a
\* desired capacity of 3 it is 1, 1, 2, 3 at 1, 30, 60 and 100 percent.
C20_SemaphoreValue ==
    /\ result # <<>> =>
        LET d == args.desired
            p == Clamped(args.percentage)
        IN  /\ \/ Rounds(result[1], d, p)
               \/ result[1] = 1 /\ Rounds(0, d, p)
            /\ 1 <= result[1]
            /\ result[1] <= d
    /\ set_semaphore(3, 1) = 1
    /\ set_semaphore(3, 30) = 1
    /\ set_semaphore(3, 60) = 2
    /\ set_semaphore(3, 100) = 3

\* set_semaphore has returned 2 for a desired capacity of 3 at 60 percent.
C20_Witness ==
    /\ result = <<2>>
    /\ DOMAIN args = {"desired", "percentage"}
    /\ args.desired = 3
    /\ args.percentage = 60

(***************************************************************************)
(* The reconciliation loop over two groups that carry the cluster tag,     *)
(* without instances: the passes, the rediscovery between them, and the    *)
(* operator changing the tags of the second group while the agent sleeps.  *)
(***************************************************************************)
\* The tags the operator may give the second group.
RetagChoices ==
    [cluster : BOOLEAN, mm : {"absent", "use-spot"}, not_terminate : {FALSE}]

\* The operator rewrites the tags of group g.
Retag(g) ==
    /\ main_pc = "sleep"
    /\ \E tags \in RetagChoices :
        /\ tags # asg_tags[g]
        /\ asg_tags' = [asg_tags EXCEPT ![g] = tags]
    /\ calls' = <<>>
    /\ UNCHANGED <<desired, asg_lc, launch_configs, ec2, activities,
                   config_vars, main_vars, thread_vars, call_vars, bid_advisor>>

\* Both groups belong to the cluster; g1 carries a policy tag, g2 may lack
\* it; g1 wants one instance and has none.
InitPasses ==
    /\ InitAgent(Scenario(FALSE, 60, "use-spot", FALSE, 1, 0, {}, "none"))
    /\ \E mm1 \in {"use-spot", "no-spot"}, mm2 \in {"absent", "use-spot"},
          price \in {"none", "0.100"} :
        /\ asg_tags = [g \in Groups |->
                         [cluster |-> TRUE, mm |-> IF g = "g1" THEN mm1 ELSE mm2,
                          not_terminate |-> FALSE]]
        /\ launch_configs = [n \in LCNames |->
                                IF n = <<"lc1", 0>> THEN price
                                ELSE IF n = <<"lc2", 0>> THEN "none" ELSE "absent"]
    /\ desired = [g \in Groups |-> IF g = "g1" THEN 1 ELSE 0]
    /\ asg_lc = [g \in Groups |-> <<LCBase[g], 0>>]
    /\ activities = [g \in Groups |-> <<>>]
    /\ ec2 = [i \in Instances |->
                 [asg |-> "none", InstanceLifecycle |-> "absent", State |-> "unborn"]]
    /\ args = <<>>
    /\ result = <<>>

NextPasses ==
    \/ Run
    \/ Rediscover
    \/ ProcessGroup
    \/ Converge
    \/ ChangeActivities("g1")
    \/ Retag("g2")

SpecPasses == InitPasses /\ [][NextPasses]_vars

\* An exception of the step's calls leaves the loop body: update_needed
\* catches those raised inside it.
Propagates(cs) ==
    \E k \in 1..Len(cs) :
        /\ cs[k].result = "error"
        /\ cs[k].caller \notin {"update_needed", "check_scaling_group_instances"}

\* C21: when the handling of a group raises, the pass ends there, the groups
\* after it are not handled and the loop goes to its sleep, never dies; after
\* the sleep the group records are rebuilt from the provider and the next
\* pass starts, unless the rediscovery itself fails.
C21_InPassExceptionEndsPassOnly ==
    [][/\ (main_pc \in {"pass", "converge"} /\ Propagates(calls')) =>
            /\ main_pc' = "sleep"
            /\ \A k \in 1..Len(asg_metas) : k # idx => asg_metas'[k] = asg_metas[k]
            /\ Len(asg_metas') = Len(asg_metas)
       /\ (main_pc = "sleep" /\ main_pc' # "sleep") =>
            \/ main_pc' = "dead"
            \/ /\ asg_metas' = discover_asgs
               /\ asg_metas' # <<>>
               /\ main_pc' = "pass"
               /\ idx' = 1]_vars

\* The handling of the first of two groups has raised and the pass has ended.
C21_Witness ==
    /\ main_pc = "sleep"
    /\ Len(asg_metas) = 2
    /\ Propagates(calls)
    /\ calls[1].target = "g1"

\* C22: a step of discovery (the initial one of run, or the one after the
\* sleep) either builds the records of exactly the discovered groups or
\* raises out of the agent; after that no step is taken any more: no pass,
\* no rediscovery, no termination task.
C22_FailedDiscoveryIsFatal ==
    [][/\ main_pc # "dead"
       /\ (main_pc \in {"init", "sleep"} /\ <<asg_metas, main_pc>>' # <<asg_metas, main_pc>>) =>
            \/ main_pc' = "dead"
            \/ /\ asg_metas' = discover_asgs
               /\ main_pc' = IF discover_asgs = <<>> THEN "sleep" ELSE "pass"
       /\ main_pc' = "dead" => main_pc \in {"init", "sleep"}]_vars

\* The rediscovery after a sleep has failed while a termination task was
\* still registered.
C22_Witness ==
    /\ main_pc = "dead"
    /\ threads # {}

(***************************************************************************)
(* Lines 672-698 applied on their own: one group of a pass, from the       *)
(* answer of update_needed to the end of the loop body, for every policy,  *)
(* launch configuration, scaling activity, market and failing call.        *)
(***************************************************************************)
ApplyFailPoints == {"none", "advisor", "describe_activities", "create", "update", "delete"}

\* The arguments: what the advisor finds, the call that loses all its
\* attempts, and whether the convergence check of update_needed converged.
ApplyUpdateArgs == [market : Markets, fail : ApplyFailPoints, converged : BOOLEAN]

\* update_needed returns True and the rest of the loop body runs.
ApplyUpdateCall ==
    /\ main_pc = "pass"
    /\ result = <<>>
    /\ update_needed(get_mm_tag(asg_metas[idx].asg_info), asg_metas[idx].bid_info,
                     FALSE, args.converged, FALSE)
    /\ Apply(asg_metas[idx], args.market, args.fail)
    /\ result' = <<"applied">>
    /\ UNCHANGED <<events_only, terminate_percentage, asg_tags, desired, ec2, activities,
                   thread_vars, args, bid_advisor>>

\* The agent has discovered g1 and is about to handle it.
InitApplyUpdate ==
    /\ \E eo \in BOOLEAN, mm \in {"use-spot", "no-spot"}, price \in {"none", "0.10", "0.100"} :
        /\ events_only = eo
        /\ asg_tags = [g \in Groups |->
                         IF g = "g1"
                         THEN [cluster |-> TRUE, mm |-> mm, not_terminate |-> FALSE]
                         ELSE [cluster |-> FALSE, mm |-> "absent", not_terminate |-> FALSE]]
        /\ launch_configs = [n \in LCNames |->
                                IF n = <<"lc1", 0>> THEN price
                                ELSE IF n = <<"lc2", 0>> THEN "none" ELSE "absent"]
    /\ terminate_percentage = 60
    /\ desired = [g \in Groups |-> IF g = "g1" THEN 1 ELSE 0]
    /\ asg_lc = [g \in Groups |-> <<LCBase[g], 0>>]
    /\ \E a \in ActivityChoices : activities = [g \in Groups |-> IF g = "g1" THEN a ELSE <<>>]
    /\ ec2 = [i \in Instances |->
                 IF i = 1
                 THEN [asg |-> "g1", InstanceLifecycle |-> "absent", State |-> "running"]
                 ELSE [asg |-> "none", InstanceLifecycle |-> "absent", State |-> "unborn"]]
    /\ asg_metas = discover_asgs
    /\ on_demand_kill_threads = {}
    /\ threads = {}
    /\ semaphores = [s \in SemIds |-> 0]
    /\ main_pc = "pass"
    /\ idx = 1
    /\ attempts_to_converge = 0
    /\ calls = <<>>
    /\ bid_advisor = AWSBidAdvisor
    /\ args \in ApplyUpdateArgs
    /\ result = <<>>

SpecApplyUpdate == InitApplyUpdate /\ [][ApplyUpdateCall]_vars

\* The step handles a use-spot group for which update_needed is true and
\* check_insufficient_capacity is reached and true.
InsufficientCapacityCase ==
    /\ result = <<>>
    /\ result' # <<>>
    /\ get_mm_tag(asg_metas[1].asg_info) = "use-spot"
    /\ args.fail \notin {"advisor", "describe_activities"}
    /\ check_insufficient_capacity(activities["g1"], NoSpotRequests)

\* Every launch configuration the step creates is an on-demand one.
AppliesOnDemand ==
    \A k \in 1..Len(calls') :
        calls'[k].op = "create_launch_configuration" => calls'[k].SpotPrice = "none"

UpgradeCase ==
    /\ result = <<>>
    /\ result' # <<>>
    /\ ~events_only
    /\ get_mm_tag(asg_metas[1].asg_info) = "use-spot"
    /\ asg_metas[1].lc_info.SpotPrice = "none"
    /\ get_new_bid_info(args.market).type = "spot"
    /\ args.fail = "none"
    /\ ~check_insufficient_capacity(activities["g1"], NoSpotRequests)

\* C24: a use-spot group without SpotPrice, a spot recommendation, sufficient
\* capacity, no failing call and events-only off: when the handling of the
\* group ends, a new launch configuration whose SpotPrice is the on-demand
\* price exists, the group points at it, the old one is deleted and the
\* in-memory bid is the spot bid at the on-demand price.
C24_UpgradeToSpot ==
    [][UpgradeCase =>
          LET old == asg_lc["g1"]
              new == asg_lc'["g1"]
              p == OnDemandTable[InstanceType]
          IN  /\ new # old
              /\ launch_configs[new] = "absent"
              /\ launch_configs'[new] = p
              /\ launch_configs'[old] = "absent"
              /\ asg_metas'[1].bid_info = [type |-> "spot", price |-> p]
              /\ asg_metas'[1].lc_info = [LaunchConfigurationName |-> new, SpotPrice |-> p]
              /\ main_pc' = "sleep"]_vars

\* The group has been moved from its on-demand launch configuration to a new
\* one bidding the on-demand price.
C24_Witness ==
    /\ result # <<>>
    /\ ~events_only
    /\ args.fail = "none"
    /\ activities["g1"] = <<>>
    /\ asg_tags["g1"].mm = "use-spot"
    /\ asg_lc["g1"] = <<"lc1", 1>>
    /\ launch_configs[<<"lc1", 1>>] = "0.10"
    /\ launch_configs[<<"lc1", 0>>] = "absent"
    /\ asg_metas[1].bid_info = [type |-> "spot", price |-> "0.10"]

(***************************************************************************)
(* asg_mm.py: set_asg_info and get_mm_tag applied on their own to every    *)
(* value of the policy tag, the tag missing included.                      *)
(***************************************************************************)
PolicyTagValues ==
    MMTagValues \cup {"absent", "Use-Spot", "USE-SPOT", "No-Spot", "", "spot",
                      "use_spot", " use-spot", "on-demand", "true"}

PolicyTags == [cluster : BOOLEAN, mm : PolicyTagValues, not_terminate : BOOLEAN]

\* A record is given the group as the provider describes it.
SetAsgInfoCall ==
    /\ \E tags \in PolicyTags :
        /\ args' = <<tags>>
        /\ asg_metas' = <<[populate_current_config("g1") EXCEPT
                              !.asg_info = set_asg_info(tags)]>>
    /\ result' = <<>>
    /\ UNCHANGED <<provider_vars, config_vars, thread_vars, main_pc, idx,
                   attempts_to_converge, calls, bid_advisor>>

GetMmTagCall ==
    /\ asg_metas # <<>>
    /\ result = <<>>
    /\ result' = <<get_mm_tag(asg_metas[1].asg_info)>>
    /\ UNCHANGED <<provider_vars, config_vars, main_vars, thread_vars, calls, args,
                   bid_advisor>>

InitPolicyTag ==
    /\ InitAgent(Scenario(FALSE, 60, "use-spot", FALSE, 1, 1, {}, "none"))
    /\ InitProvider(Scenario(FALSE, 60, "use-spot", FALSE, 1, 1, {}, "none"))
    /\ args = <<>>
    /\ result = <<>>

NextPolicyTag == SetAsgInfoCall \/ GetMmTagCall

SpecPolicyTag == InitPolicyTag /\ [][NextPolicyTag]_vars

\* C25: once set_asg_info has been applied, get_mm_tag answers use-spot or
\* no-spot: use-spot for the tag value use-spot exactly, and no-spot for a
\* missing tag and for every other value.
C25_PolicyTagIsUseSpotOrNoSpot ==
    /\ \A k \in 1..Len(asg_metas) :
          get_mm_tag(asg_metas[k].asg_info) \in {"use-spot", "no-spot"}
    /\ result # <<>> =>
          result[1] = IF args[1].mm = "use-spot" THEN "use-spot" ELSE "no-spot"

\* A tag value that differs from use-spot only by case has been read as no-spot.
C25_Witness ==
    /\ result = <<"no-spot">>
    /\ args[1].mm = "Use-Spot"

\* The calls made to the provider, as opposed to the bid advisor and kubectl.
ProviderOps ==
    {"describe_auto_scaling_groups", "describe_scaling_activities", "describe_instances",
     "describe_spot_instance_requests", "describe_launch_configurations",
     "create_launch_configuration", "update_auto_scaling_group",
     "delete_launch_configuration", "terminate_instance_in_auto_scaling_group"}

\* C26: every call to the provider is attempted at most three times, and one
\* that ends in an error has used all three attempts.
C26_EveryProviderCallRetried ==
    \A k \in 1..Len(calls) :
        calls[k].op \in ProviderOps =>
            /\ calls[k].attempts <= stop_max_attempt_number
            /\ calls[k].result = "error" => calls[k].attempts = stop_max_attempt_number

(***************************************************************************)
(* discover_asgs applied on its own to accounts in which groups of other   *)
(* owners precede g1 and g2 in the provider's listing, with the operator   *)
(* changing tags between two discoveries.                                  *)
(***************************************************************************)
\* k groups without tags, then g1 and g2.
Account(k) == [j \in 1..k |-> "other"] \o GroupOrder

Accounts == {Account(k) : k \in 0..MaxRecords}

\* del self._asg_metas[:] followed by discover_asgs and populate_current_config.
DiscoverAsgsCall ==
    /\ asg_metas' =
          LET found == get_asgs_with_tags_of(args[1], asg_tags)
          IN  [k \in 1..Len(found) |-> populate_current_config(found[k])]
    /\ result' = <<"discovered">>
    /\ UNCHANGED <<provider_vars, config_vars, thread_vars, main_pc, idx,
                   attempts_to_converge, calls, args, bid_advisor>>

\* The operator changes the tags of a group; the records are stale until the
\* next discovery.
RetagBetweenDiscoveries(g) ==
    /\ result # <<>>
    /\ \E tags \in RetagChoices :
        /\ tags # asg_tags[g]
        /\ asg_tags' = [asg_tags EXCEPT ![g] = tags]
    /\ result' = <<>>
    /\ UNCHANGED <<desired, asg_lc, launch_configs, ec2, activities, config_vars,
                   main_vars, thread_vars, calls, args, bid_advisor>>

InitDiscovery ==
    /\ InitAgent(Scenario(FALSE, 60, "use-spot", FALSE, 1, 1, {}, "none"))
    /\ \E t \in [Groups -> RetagChoices] :
        /\ asg_tags = t
        /\ desired = [g \in Groups |-> 1]
        /\ asg_lc = [g \in Groups |-> <<LCBase[g], 0>>]
        /\ launch_configs = [n \in LCNames |-> IF n[2] = 0 THEN "none" ELSE "absent"]
        /\ activities = [g \in Groups |-> <<>>]
        /\ ec2 = [i \in Instances |->
                     [asg |-> "none", InstanceLifecycle |-> "absent", State |-> "unborn"]]
    /\ args \in {<<a>> : a \in Accounts}
    /\ result = <<>>

NextDiscovery ==
    \/ DiscoverAsgsCall
    \/ \E g \in Groups : RetagBetweenDiscoveries(g)

SpecDiscovery == InitDiscovery /\ [][NextDiscovery]_vars

\* The groups of the account that carry the cluster tag and a policy tag.
TaggedGroups ==
    {g \in Groups : asg_tags[g].cluster /\ asg_tags[g].mm # "absent"}

\* C27: after a discovery there is exactly one record for every group that
\* carries the cluster tag and a policy tag, built from the provider's present
\* state, and no other record.
C27_RecordsAreTheTaggedGroups ==
    result # <<>> =>
        /\ {asg_metas[k].name : k \in 1..Len(asg_metas)} = TaggedGroups
        /\ Len(asg_metas) = Cardinality(TaggedGroups)
        /\ \A k \in 1..Len(asg_metas) :
              asg_metas[k] = populate_current_config(asg_metas[k].name)

\* C28: update_scaling_group calls create for the new name, then update of
\* the group, then delete of the old name, each only after the one before
\* succeeded; a launch configuration is deleted only when the group has been
\* pointed away from it; and the record changes only when all three calls
\* succeeded.
C28_CreateUpdateDeleteThenRecord ==
    [][RewriteStep =>
        LET old == asg_metas[1].lc_info.LaunchConfigurationName
            new == new_lc_name(old)
            n == Len(calls')
        IN  /\ n <= 3
            /\ calls'[1].target = new
            /\ n >= 2 => /\ calls'[1].result # "error"
                         /\ calls'[2].op = "update_auto_scaling_group"
                         /\ calls'[2].target = "g1"
            /\ n = 3 => /\ calls'[2].result = "ok"
                        /\ calls'[3].op = "delete_launch_configuration"
                        /\ calls'[3].target = old
                        /\ asg_lc'["g1"] = new
                        /\ asg_lc'["g1"] # calls'[3].target
            /\ \A name \in LCNames :
                  (launch_configs[name] # "absent" /\ launch_configs'[name] = "absent") =>
                      /\ name = old
                      /\ asg_lc'["g1"] # name
            /\ asg_metas' # asg_metas =>
                  /\ n = 3
                  /\ \A k \in 1..3 : calls'[k].result # "error"]_vars

\* A rewrite has gone through: three calls without error, the group points at
\* the new launch configuration and the record carries its name.
C28_Witness ==
    /\ asg_metas # <<>>
    /\ Len(calls) = 3
    /\ \A k \in 1..3 : calls[k].result # "error"
    /\ calls[3].op = "delete_launch_configuration"
    /\ launch_configs[calls[3].target] = "absent"
    /\ asg_lc["g1"] = calls[1].target
    /\ asg_metas[1].lc_info.LaunchConfigurationName = calls[1].target
    /\ Len(result) = 2

\* C29: a task that has terminated its instance gives its slot back only
\* when a poll finds as many healthy instances as the desired capacity; a
\* task terminates only when its semaphore has a free slot; and in a group
\* with one slot no instance is terminated while another task of the group
\* still waits for its replacement.
C29_SlotHeldUntilReplacementHealthy ==
    [][\A t \in threads :
          /\ (t.pc = "wait" /\ t \notin threads') =>
                describe_asg(t.asg).Instances = describe_asg(t.asg).DesiredCapacity
          /\ (/\ t.pc = "blocked"
              /\ ec2[t.instance].State # "terminated"
              /\ ec2'[t.instance].State = "terminated") =>
                /\ semaphores[t.sem] > 0
                /\ set_semaphore(desired[t.asg], terminate_percentage) = 1 =>
                      Active(t.asg) = {}]_vars

\* The guards of run_or_die tell the task t to leave its instance alone.
GuardFails(t) ==
    run_or_die_aborts(t.mm_tag,
                      is_spot([InstanceLifecycle |-> ec2[t.instance].InstanceLifecycle]),
                      t.bid_type)

\* C30 as stated: a task whose guard fails can abort at once, whether or not
\* its semaphore has a free slot.
C30_AbortsWithoutWaiting ==
    \A t \in threads :
        (t.pc = "blocked" /\ GuardFails(t) /\ main_pc \notin {"init", "dead"}) =>
            ENABLED Admit(t)

\* C30: the guard is evaluated inside the semaphore.  A task past its timer
\* leaves only when its semaphore has a free slot, also when its guard fails;
\* with every slot held it stays blocked and its entry stays in the map.  Once
\* admitted, a task whose guard fails issues no call, leaves the instance as
\* it is, removes its entry and keeps no slot.
C30_GuardInsideSemaphore ==
    [][\A t \in threads :
          (t.pc = "blocked" /\ t \notin threads') =>
              /\ semaphores[t.sem] > 0
              /\ GuardFails(t) =>
                    /\ calls' = <<>>
                    /\ ec2' = ec2
                    /\ t.instance \notin on_demand_kill_threads'
                    /\ \A u \in threads' : u.instance # t.instance
                    /\ (\E u \in threads' : u.sem = t.sem) =>
                          semaphores'[t.sem] = semaphores[t.sem]]_vars

\* A task whose guard fails is blocked behind a task that holds the only slot
\* of their semaphore.
C30_Witness ==
    \E t, u \in threads :
        /\ t.pc = "blocked"
        /\ GuardFails(t)
        /\ t.instance \in on_demand_kill_threads
        /\ u.pc = "wait"
        /\ u.sem = t.sem
        /\ semaphores[t.sem] = 0

\* The task t passes the semaphore in the step: it starts to wait for its
\* replacement or ends.
Admitted(t) == t.pc = "blocked" /\ t \notin threads'

\* C31 as stated: among the tasks of one scheduling call, which share their
\* semaphore, a task is not admitted while a task registered before it, here
\* the one of the smaller instance id, is still waiting at the semaphore.
C31_AdmittedInIterationOrder ==
    [][\A t, u \in threads :
          (/\ u.sem = t.sem
           /\ u.instance < t.instance
           /\ u.pc = "blocked"
           /\ u \in threads') => ~Admitted(t)]_vars

\* C31: a task is admitted only when its semaphore has a free slot and a
\* task that goes on to terminate takes that slot; the order among the tasks
\* of one scheduling call is that of their threads' arrival, not that of
\* their registration.
C31_AdmittedWhenSlotFree ==
    [][\A t \in threads :
          Admitted(t) =>
              /\ semaphores[t.sem] > 0
              /\ \A u \in threads' :
                    (u.instance = t.instance /\ u.pc = "wait") =>
                        /\ u.sem = t.sem
                        /\ semaphores'[t.sem] = semaphores[t.sem] - 1]_vars

\* The task of the second instance holds the only slot of the semaphore it
\* shares with the task of the first instance, which still waits for it.
C31_Witness ==
    \E t, u \in threads :
        /\ u.sem = t.sem
        /\ u.instance < t.instance
        /\ u.pc = "blocked"
        /\ t.pc = "wait"
        /\ semaphores[t.sem] = 0

\* The step handles a group for which update_needed is true, capacity is
\* sufficient and the advisor's bid equals the group's bid.
EqualBidCase ==
    /\ result = <<>>
    /\ result' # <<>>
    /\ args.fail \notin {"advisor", "describe_activities"}
    /\ ~check_insufficient_capacity(activities["g1"], NoSpotRequests)
    /\ are_bids_equal(asg_metas[1].bid_info, get_new_bid_info(args.market))

\* The step issues no call and leaves the record, the launch configurations
\* and the group's pointer as they are.
NothingRewritten ==
    /\ calls' = <<>>
    /\ asg_metas' = asg_metas
    /\ launch_configs' = launch_configs
    /\ asg_lc' = asg_lc

\* C32 as stated: when the advisor's bid equals the group's bid and capacity
\* is sufficient, nothing is rewritten.
C32_EqualBidRewritesNothing ==
    [][EqualBidCase => NothingRewritten]_vars

\* C32: when the advisor's bid equals the group's bid and capacity is
\* sufficient, nothing is rewritten for a use-spot group; a no-spot group on
\* a spot bid is rewritten to on-demand before the bids are compared.
C32_EqualBidRewritesNothingUnderUseSpot ==
    [][EqualBidCase =>
          IF get_mm_tag(asg_metas[1].asg_info) = "no-spot" /\ asg_metas[1].bid_info.type = "spot"
          THEN events_only \/ (calls' # <<>> /\ calls'[1].SpotPrice = "none")
          ELSE NothingRewritten]_vars

\* A use-spot group on a spot bid that has not converged, with the advisor
\* recommending the same bid: its handling has ended and nothing was called.
C32_Witness ==
    /\ result # <<>>
    /\ ~events_only
    /\ asg_tags["g1"].mm = "use-spot"
    /\ args.fail = "none"
    /\ activities["g1"] = <<>>
    /\ asg_metas[1].bid_info = [type |-> "spot", price |-> "0.10"]
    /\ get_new_bid_info(args.market) = asg_metas[1].bid_info
    /\ calls = <<>>
    /\ asg_lc["g1"] = <<"lc1", 0>>

(***************************************************************************)
(* check_scaling_group_instances run on its own, one describe call per     *)
(* step, while the autoscaler raises the desired capacity and launches     *)
(* instances between the calls.                                            *)
(***************************************************************************)
\* Line 745: the attempts of the loop.
max_attempts_to_converge == 3

\* The autoscaler raises the desired capacity of group g.
ScaleUp(g) ==
    /\ args = <<>>
    /\ desired[g] <= NumInstances
    /\ desired' = [desired EXCEPT ![g] = @ + 1]
    /\ UNCHANGED <<asg_tags, asg_lc, launch_configs, ec2, activities, config_vars,
                   main_vars, thread_vars, calls, call_vars, bid_advisor>>

\* One turn of the while loop (lines 746-774).  `result' lists the
\* observations made so far and `args' holds the value returned, if any; a
\* describe call that loses all its attempts raises out of the method.
CheckScalingGroupInstancesAttempt ==
    /\ main_pc = "converge"
    /\ args = <<>>
    /\ attempts_to_converge > 0
    /\ \E fails \in FailChoices :
        LET asg == describe_asg("g1")
        IN  IF ~retry(fails).ok
            THEN /\ args' = <<"raised">>
                 /\ calls' = <<describe_failed("g1")>>
                 /\ UNCHANGED <<result, attempts_to_converge>>
            ELSE /\ result' = Append(result, asg)
                 /\ calls' = <<>>
                 /\ IF observation_converged(asg)
                    THEN /\ args' = <<"True">>
                         /\ UNCHANGED attempts_to_converge
                    ELSE /\ attempts_to_converge' = attempts_to_converge - 1
                         /\ args' = IF attempts_to_converge = 1 THEN <<"False">> ELSE <<>>
    /\ UNCHANGED <<provider_vars, config_vars, thread_vars, asg_metas, main_pc, idx,
                   bid_advisor>>

\* The group g1 with any desired capacity and any number of running
\* instances; check_scaling_group_instances has just been called.
InitConverge ==
    /\ \E d \in 1..NumInstances, n \in 0..NumInstances :
        InitProvider(Scenario(FALSE, 60, "use-spot", FALSE, d, n, {}, "0.100"))
    /\ events_only = FALSE
    /\ terminate_percentage = 60
    /\ asg_metas = discover_asgs
    /\ on_demand_kill_threads = {}
    /\ threads = {}
    /\ semaphores = [s \in SemIds |-> 0]
    /\ main_pc = "converge"
    /\ idx = 1
    /\ attempts_to_converge = max_attempts_to_converge
    /\ calls = <<>>
    /\ bid_advisor = AWSBidAdvisor
    /\ args = <<>>
    /\ result = <<>>

NextConverge ==
    \/ CheckScalingGroupInstancesAttempt
    \/ ScaleUp("g1")
    \/ (args = <<>> /\ Launch("g1"))

SpecConverge == InitConverge /\ [][NextConverge]_vars

\* The observation shows no more desired capacity than instances.
CapacityMet(asg) == asg.DesiredCapacity <= asg.Instances

\* C33: check_scaling_group_instances observes the group at most three times;
\* it returns True at the first observation whose desired capacity does not
\* exceed the number of instances, and False when three observations all
\* showed the desired capacity above it, and in no other case.
C33_TrueAtFirstConvergedObservation ==
    /\ Len(result) <= 3
    /\ \A k \in 1..(Len(result) - 1) : ~CapacityMet(result[k])
    /\ args = <<"True">> <=> (result # <<>> /\ CapacityMet(result[Len(result)]))
    /\ args = <<"False">> <=> (Len(result) = 3 /\ ~CapacityMet(result[3]))

\* The desired capacity was raised during the check and the instances
\* followed: the third observation converged.
C33_Witness ==
    /\ args = <<"True">>
    /\ Len(result) = 3
    /\ result[3].DesiredCapacity > result[1].DesiredCapacity
    /\ result[3].Instances > result[1].Instances

\* C34: in every record the bid agrees with the launch configuration held in
\* memory: the bid is a spot bid exactly when the launch configuration has a
\* SpotPrice, its price is then that SpotPrice, and otherwise the bid is the
\* on-demand one.
C34_BidAgreesWithLaunchConfig ==
    \A k \in 1..Len(asg_metas) :
        LET bid_info == asg_metas[k].bid_info
            lc_info == asg_metas[k].lc_info
        IN  IF lc_info.SpotPrice # "none"
            THEN bid_info = [type |-> "spot", price |-> lc_info.SpotPrice]
            ELSE bid_info.type = "on-demand"

\* A rewrite from a spot bid to on-demand failed in its delete, and the
\* record still carries the spot bid and the SpotPrice it was populated with.
C34_Witness ==
    /\ asg_metas # <<>>
    /\ Len(calls) = 3
    /\ calls[1].SpotPrice = "none"
    /\ calls[3].result = "error"
    /\ asg_metas[1].bid_info = [type |-> "spot", price |-> "0.10"]
    /\ asg_metas[1].lc_info.SpotPrice = "0.10"

\* The call of update_scaling_group made in the step returns without raising.
RewriteReturns ==
    /\ RewriteStep
    /\ Len(calls') = 3
    /\ \A k \in 1..3 : calls'[k].result # "error"

\* C35: when update_scaling_group returns after applying a bid, the launch
\* configuration the group points at has the SpotPrice of that bid, or none
\* for the on-demand bid, also when the create met an existing name.
C35_ProviderAgreesWithAppliedBid ==
    [][RewriteReturns =>
          /\ launch_configs'[asg_lc'["g1"]] = calls'[1].SpotPrice
          /\ launch_configs'[asg_lc'["g1"]] = asg_metas'[1].lc_info.SpotPrice]_vars

\* C36: when a task terminates its instance, the launch configuration the
\* group points at has a SpotPrice if the policy is use-spot and none if it
\* is no-spot, so that the replacement is launched with the lifecycle the
\* policy asks for.
C36_ReplacementHasPolicyLifecycle ==
    [][\A t \in threads :
          (/\ t.pc = "blocked"
           /\ ec2[t.instance].State = "running"
           /\ ec2'[t.instance].State = "terminated") =>
              /\ t.mm_tag = "use-spot" => launch_configs[asg_lc[t.asg]] # "none"
              /\ t.mm_tag = "no-spot" => launch_configs[asg_lc[t.asg]] = "none"]_vars

(***************************************************************************)
(* The termination tasks of a group whose tags the operator changes while  *)
(* the tasks wait: each task keeps the group record it was registered      *)
(* with, the main loop replaces its records at every rediscovery.          *)
(***************************************************************************)
\* The tags the operator may give the managed group.
PolicyRetagChoices ==
    [cluster : {TRUE}, mm : {"use-spot", "no-spot"}, not_terminate : BOOLEAN]

\* The operator changes the policy tag or the not-terminate tag of group g,
\* once, while the agent sleeps between two passes.
RetagPolicy(g) ==
    /\ main_pc = "sleep"
    /\ asg_tags[g].mm = "use-spot"
    /\ ~asg_tags[g].not_terminate
    /\ \E tags \in PolicyRetagChoices :
        /\ tags # asg_tags[g]
        /\ asg_tags' = [asg_tags EXCEPT ![g] = tags]
    /\ calls' = <<>>
    /\ UNCHANGED <<desired, asg_lc, launch_configs, ec2, activities,
                   config_vars, main_vars, thread_vars, call_vars, bid_advisor>>

\* A use-spot group that wants two instances and has one or two on-demand
\* instances running.
InitRetag ==
    /\ \E n \in {1, 2} :
          LET sc == Scenario(FALSE, 60, "use-spot", FALSE, 2, n, {}, "0.100")
          IN  InitAgent(sc) /\ InitProvider(sc)
    /\ args = <<>>
    /\ result = <<>>

NextRetag ==
    \/ Run
    \/ Rediscover
    \/ ProcessGroup
    \/ Converge
    \/ \E t \in threads : TimerFire(t)
    \/ \E t \in threads : Admit(t)
    \/ \E t \in threads : Poll(t)
    \/ Launch("g1")
    \/ RetagPolicy("g1")

SpecRetag == InitRetag /\ [][NextRetag]_vars

\* C37: a task that terminates its instance does so under the tags of the
\* most recent discovery: the group's record does not carry the not-terminate
\* tag, and the instance's lifecycle does not match the record's policy tag.
C37_TaskDecidesOnLatestDiscovery ==
    [][\A t \in threads :
          (/\ t.pc = "blocked"
           /\ ec2[t.instance].State = "running"
           /\ ec2'[t.instance].State = "terminated") =>
              \A k \in 1..Len(asg_metas) :
                  asg_metas[k].name = t.asg =>
                      /\ ~not_terminate_instance(asg_metas[k].asg_info)
                      /\ ~run_or_die_aborts(get_mm_tag(asg_metas[k].asg_info),
                                            is_spot([InstanceLifecycle |-> ec2[t.instance].InstanceLifecycle]),
                                            t.bid_type)]_vars

(***************************************************************************)
(* The termination tasks under fair scheduling: a Timer that is due fires, *)
(* a task that can take a slot of its semaphore takes it, a poll that is   *)
(* due happens, and the provider launches the instances a group lacks.     *)
(***************************************************************************)
NextFair ==
    \/ Run
    \/ Rediscover
    \/ ProcessGroup
    \/ Converge
    \/ \E t \in threads : TimerFire(t)
    \/ \E t \in threads : Admit(t)
    \/ \E t \in threads : Poll(t)
    \/ Launch("g1")

\* threading schedules every started Timer and every runnable thread.
Fairness ==
    /\ \A i \in Instances :
          /\ WF_vars(\E t \in threads : t.instance = i /\ TimerFire(t))
          /\ SF_vars(\E t \in threads : t.instance = i /\ Admit(t))
          /\ WF_vars(\E t \in threads : t.instance = i /\ Poll(t))
    /\ WF_vars(Launch("g1"))

SpecFair == InitRetag /\ [][NextFair]_vars /\ Fairness

\* The group has as many healthy instances as it wants.
HealthyEqualsDesired ==
    describe_asg("g1").Instances = describe_asg("g1").DesiredCapacity

\* C38: if the group's healthy-instance count equals its desired capacity
\* again and again, every entry of the pending-terminations map eventually
\* leaves the map, as long as the agent runs.
C38_EveryTaskEventuallyFinishes ==
    ([]<>HealthyEqualsDesired) =>
        \A i \in Instances :
            (i \in on_demand_kill_threads) ~>
                (i \notin on_demand_kill_threads \/ main_pc = "dead")

\* The bid a create_launch_configuration call applies.
AppliedBid(c) ==
    IF c.SpotPrice = "none" THEN create_on_demand_bid_info
    ELSE [type |-> "spot", price |-> c.SpotPrice]

\* C39: a launch configuration is created for the group only when the bid
\* being applied differs, per are_bids_equal, from the group's current bid;
\* a group whose bid is on-demand is not rewritten to on-demand.
C39_RewrittenOnlyOnChangeOfBid ==
    [][(result = <<>> /\ result' # <<>>) =>
          \A k \in 1..Len(calls') :
              calls'[k].op = "create_launch_configuration" =>
                  ~are_bids_equal(asg_metas[1].bid_info, AppliedBid(calls'[k]))]_vars

====
